---- MODULE Spec2Model ----
(***************************************************************************)
(* GestureDrop: the operation coordinator (Vision/main.py), the peer       *)
(* discovery engine (Vision/peer_discovery.py) and the receive handler     *)
(* (Vision/receiver.py with Vision/network_utils.py).                      *)
(*                                                                         *)
(* The specifications share the module, each over one component with the   *)
(* others at rest:                                                         *)
(*   SpecCoord  the main loop and the tasks it launches                    *)
(*   SpecDisc   the running discovery engine with one other host           *)
(*   SpecEvict  listener and eviction monitor with two other hosts         *)
(*              (SpecEvictFair adds the monitor's scheduling)              *)
(*   SpecLife   start() and stop() of the discovery engine                 *)
(*              (SpecLifeFair adds the threads' scheduling)                *)
(*   SpecRecv   the inbound transfer connections and their handlers        *)
(***************************************************************************)
EXTENDS Integers, Sequences, FiniteSets, TLC

(***************************************************************************)
(* Bounds of the model.                                                    *)
(***************************************************************************)
\* threads launched by the coordinator that may be alive at the same time
MaxTasks == 2
\* the clock of the discovery engine stops at MaxTime seconds
MaxTime == 20
\* seconds between two readings of the clock that the model tells apart
TickStep == 5
\* the files a peer transfers have 0..MaxBody bytes
MaxBody == 2

(***************************************************************************)
(* Program constants.                                                      *)
(***************************************************************************)
\* main.py: frames between two refreshes of the network status
NET_CHECK_INTERVAL == 150
\* peer_discovery.py: seconds before a peer is considered gone
PEER_TIMEOUT == 10
\* receiver.py: the most bytes one recv of the body asks for
BUFFER_SIZE == 65536
\* receiver.py: the receive directory
SAVE_FOLDER == "received_files"

VARIABLES
    \* ---- coordinator (main.py) ----
    operation_active,   \* global operation_active
    operation_status,   \* global operation_status
    lan_ok,             \* environment: get_lan_ip() would return a non-127 address
    net_status,         \* main's cached net_status["ok"]
    net_check_counter,  \* main's net_check_counter
    m_pc,               \* main loop position: "frame", "handle", "spawn", "exit"
    m_action,           \* action returned by detector.process_frame
    m_active,           \* main's local snapshot `active`
    m_log,              \* the branch the loop body took last (its diagnostic)
    tasks,              \* thread slot -> [kind, pc] of run_sender / run_receiver
    \* ---- discovery engine (peer_discovery.py) ----
    now,                \* time.time(), in seconds
    own_ip,             \* self._own_ip
    lan_hosts,          \* environment: the other hosts that run the program
    started,            \* start() has been called
    stop_event,         \* self._stop_event.is_set()
    stop_calls,         \* stop() was called "never", "once" or "again"
    peers,              \* self._peers: ip -> [hostname, last_seen, via]
    last_peer_set,      \* self._last_peer_set
    b_pc,               \* _broadcaster position
    l_pc,               \* _listener position
    l_join,             \* the peer the listener is about to report as joined
    p_pc,               \* _probe_scanner position
    probes,             \* probe thread of each target address: its position
    mon_pc,             \* _cleanup_monitor position
    mon_now,            \* the monitor's local `now`
    a_pc,               \* an application thread calling get_peers()
    a_now,              \* get_peers' local `now`
    a_result,           \* the list get_peers() returned last
    cb_log,             \* per address: the callbacks delivered, in order
    evicted,            \* per address: how often its record was deleted
    refreshed,          \* per address: its record was refreshed in place
    phase,              \* per address: unknown / live / expired / left
    \* ---- receiver (receiver.py) ----
    handlers,           \* connection -> the locals of its _handle_connection
    files,              \* the directory received_files: path -> content
    \* ---- persistent server and one-shot receiver (receiver.py) ----
    _receiver_running,  \* global _receiver_running
    srv_pc,             \* _persistent_server position
    srv_socket,         \* the persistent server's listening socket
    oneshot,            \* the locals of start_receiver
    \* ---- sender (sender.py) ----
    sender,             \* the arguments and locals of start_sender
    n_pc,               \* the notify thread's position
    notified,           \* the destinations IMAGE_READY datagrams were sent to
    s_node,             \* environment: the LAN address of the sending node
    clients,            \* environment: the hosts that connect to the sender
    \* ---- a call of a pure function ----
    fn_in,              \* the arguments of the call
    fn_out              \* what the call returned, once it has returned

coordVars == <<operation_active, operation_status, lan_ok, net_status,
               net_check_counter, m_pc, m_action, m_active, m_log, tasks>>

discVars == <<now, own_ip, lan_hosts, started, stop_event, stop_calls, peers,
              last_peer_set, b_pc, l_pc, l_join, p_pc, probes, mon_pc, mon_now,
              a_pc, a_now, a_result, cb_log, evicted, refreshed, phase>>

recvVars == <<handlers, files>>

servVars == <<_receiver_running, srv_pc, srv_socket, oneshot>>

sendVars == <<sender, n_pc, notified, s_node, clients>>

fnVars == <<fn_in, fn_out>>

vars == <<coordVars, discVars, recvVars, servVars, sendVars, fnVars>>

(***************************************************************************)
(* Coordinator: main.py                                                    *)
(***************************************************************************)
Actions == {"NONE", "SEND", "RECEIVE"}

TaskIds == 1..MaxTasks

\* A slot holds no thread yet ("idle"), a thread that has ended ("done"), or
\* a run_sender / run_receiver thread at:
\*   "run"  inside start_sender / start_receiver
\*   "ret"  start_* returned normally, before the DONE status is written
\*   "exc"  start_* raised, before the FAILED status is written
\*   "fin"  in the finally block, before operation_active is reset
\* outcome records how start_* ended: "none", "returned" or "raised".
TaskPcs == {"idle", "run", "ret", "exc", "fin", "done"}

Live(i) == tasks[i].pc \notin {"idle", "done"}

LiveTasks == {i \in TaskIds : Live(i)}

\* get_network_status()["ok"]: the LAN address does not start with "127."
get_network_status_ok == lan_ok

\* status written after start_* returned (main.py run_sender / run_receiver)
DoneStatus(kind) == IF kind = "SEND" THEN "SEND DONE" ELSE "RECEIVE DONE"

\* a wrapper whose except block forgets to publish leaves the status as it is
FailedStatusKept(kind) == operation_status

\* status written in the except block
FailedStatus(kind) == IF kind = "SEND" THEN "SEND FAILED" ELSE "RECEIVE FAILED"

\* status written when a trigger is accepted
StartStatus(kind) ==
    IF kind = "SEND" THEN "HOSTING - waiting for receiver..."
                     ELSE "SEARCHING for sender..."

NoWifiStatus == "NO WIFI - Connect first!"

\* a gate that takes an operation for finished once it is in its finally
\* block
GateOpenAtFinally ==
    /\ m_action # "NONE"
    /\ ~m_active \/ \E i \in TaskIds : tasks[i].pc = "fin"

\* a gate that ignores the snapshot of operation_active
GateOpenAlways == m_action # "NONE"

\* `if action and not active:`
GateOpen == m_action # "NONE" /\ ~m_active

\* the module's globals when main() starts
CoordStart ==
    /\ operation_active = FALSE
    /\ operation_status = ""
    /\ lan_ok \in BOOLEAN
    /\ net_status = lan_ok
    /\ net_check_counter = 0
    /\ m_pc = "frame"
    /\ m_action = "NONE"
    /\ m_active = FALSE
    /\ m_log = "none"
    /\ tasks = [i \in TaskIds |->
                   [kind |-> "SEND", pc |-> "idle", outcome |-> "none"]]

\* environment: the machine joins or leaves a network
EnvNetwork ==
    /\ UNCHANGED <<discVars, recvVars, servVars, sendVars, fnVars>>
    /\ m_pc # "exit"
    /\ lan_ok' = ~lan_ok
    /\ UNCHANGED <<m_log, operation_active, operation_status, net_status,
                   net_check_counter, m_pc, m_action, m_active, tasks>>

\* One pass of the loop head: read a frame, detect the action, refresh the
\* network status every NET_CHECK_INTERVAL frames, snapshot the shared state.
MainFrame ==
    /\ UNCHANGED <<discVars, recvVars, servVars, sendVars, fnVars>>
    /\ m_pc = "frame"
    /\ \E a \in Actions : m_action' = a
    /\ IF net_check_counter + 1 >= NET_CHECK_INTERVAL
         THEN /\ net_status' = get_network_status_ok
              /\ net_check_counter' = 0
         ELSE /\ net_check_counter' = net_check_counter + 1
              /\ UNCHANGED net_status
    /\ m_active' = operation_active
    /\ m_pc' = "handle"
    /\ UNCHANGED <<m_log, operation_active, operation_status, lan_ok, tasks>>

\* `if not net_status["ok"]`: the gesture is blocked
MainBlocked ==
    /\ UNCHANGED <<discVars, recvVars, servVars, sendVars, fnVars>>
    /\ m_pc = "handle"
    /\ GateOpen
    /\ ~net_status
    /\ operation_status' = NoWifiStatus
    /\ m_pc' = "frame"
    /\ m_log' = "blocked"
    /\ UNCHANGED <<operation_active, lan_ok, net_status, net_check_counter,
                   m_action, m_active, tasks>>

\* `elif action == "SEND"` / `elif action == "RECEIVE"`: the flag and the
\* status are set under the lock; the thread is started afterwards.
MainAccept ==
    /\ UNCHANGED <<discVars, recvVars, servVars, sendVars, fnVars>>
    /\ m_pc = "handle"
    /\ GateOpen
    /\ net_status
    /\ \E i \in TaskIds : ~Live(i)
    /\ operation_active' = TRUE
    /\ operation_status' = StartStatus(m_action)
    /\ m_pc' = "spawn"
    /\ m_log' = "accepted"
    /\ UNCHANGED <<lan_ok, net_status, net_check_counter, m_action, m_active,
                   tasks>>

\* threading.Thread(target=run_sender / run_receiver).start()
MainSpawn ==
    /\ UNCHANGED <<discVars, recvVars, servVars, sendVars, fnVars>>
    /\ m_pc = "spawn"
    /\ LET i == CHOOSE j \in TaskIds :
                   ~Live(j) /\ \A k \in TaskIds : ~Live(k) => j <= k
       IN tasks' = [tasks EXCEPT ![i] = [kind |-> m_action, pc |-> "run",
                                         outcome |-> "none"]]
    /\ m_pc' = "frame"
    /\ UNCHANGED <<m_log, operation_active, operation_status, lan_ok, net_status,
                   net_check_counter, m_action, m_active>>

\* `elif action and active`: the gesture is ignored
MainIgnore ==
    /\ UNCHANGED <<discVars, recvVars, servVars, sendVars, fnVars>>
    /\ m_pc = "handle"
    /\ ~GateOpen
    /\ m_action # "NONE"
    /\ m_pc' = "frame"
    /\ m_log' = "ignored"
    /\ UNCHANGED <<operation_active, operation_status, lan_ok, net_status,
                   net_check_counter, m_action, m_active, tasks>>

\* no action in this frame
MainNoAction ==
    /\ UNCHANGED <<discVars, recvVars, servVars, sendVars, fnVars>>
    /\ m_pc = "handle"
    /\ m_action = "NONE"
    /\ m_pc' = "frame"
    /\ m_log' = "noaction"
    /\ UNCHANGED <<operation_active, operation_status, lan_ok, net_status,
                   net_check_counter, m_action, m_active, tasks>>

\* the camera fails or the user presses q: the process ends and takes its
\* daemon threads with it
MainQuit ==
    /\ UNCHANGED <<discVars, recvVars, servVars, sendVars, fnVars>>
    /\ m_pc = "frame"
    /\ m_pc' = "exit"
    /\ UNCHANGED <<m_log, operation_active, operation_status, lan_ok, net_status,
                   net_check_counter, m_action, m_active, tasks>>

\* start_sender / start_receiver returns
TaskReturn(i) ==
    /\ UNCHANGED <<discVars, recvVars, servVars, sendVars, fnVars>>
    /\ m_pc # "exit"
    /\ tasks[i].pc = "run"
    /\ tasks' = [tasks EXCEPT ![i].pc = "ret", ![i].outcome = "returned"]
    /\ UNCHANGED <<m_log, operation_active, operation_status, lan_ok, net_status,
                   net_check_counter, m_pc, m_action, m_active>>

\* start_sender / start_receiver raises an Exception
TaskRaise(i) ==
    /\ UNCHANGED <<discVars, recvVars, servVars, sendVars, fnVars>>
    /\ m_pc # "exit"
    /\ tasks[i].pc = "run"
    /\ tasks' = [tasks EXCEPT ![i].pc = "exc", ![i].outcome = "raised"]
    /\ UNCHANGED <<m_log, operation_active, operation_status, lan_ok, net_status,
                   net_check_counter, m_pc, m_action, m_active>>

\* try: ... operation_status = "SEND DONE" / "RECEIVE DONE"
TaskPublishDone(i) ==
    /\ UNCHANGED <<discVars, recvVars, servVars, sendVars, fnVars>>
    /\ m_pc # "exit"
    /\ tasks[i].pc = "ret"
    /\ operation_status' = DoneStatus(tasks[i].kind)
    /\ tasks' = [tasks EXCEPT ![i].pc = "fin"]
    /\ UNCHANGED <<m_log, operation_active, lan_ok, net_status, net_check_counter,
                   m_pc, m_action, m_active>>

\* except Exception: operation_status = "SEND FAILED" / "RECEIVE FAILED"
TaskPublishFailed(i) ==
    /\ UNCHANGED <<discVars, recvVars, servVars, sendVars, fnVars>>
    /\ m_pc # "exit"
    /\ tasks[i].pc = "exc"
    /\ operation_status' = FailedStatus(tasks[i].kind)
    /\ tasks' = [tasks EXCEPT ![i].pc = "fin"]
    /\ UNCHANGED <<m_log, operation_active, lan_ok, net_status, net_check_counter,
                   m_pc, m_action, m_active>>

\* finally: operation_active = False; the thread ends
TaskReset(i) ==
    /\ UNCHANGED <<discVars, recvVars, servVars, sendVars, fnVars>>
    /\ m_pc # "exit"
    /\ tasks[i].pc = "fin"
    /\ operation_active' = FALSE
    /\ tasks' = [tasks EXCEPT ![i].pc = "done"]
    /\ UNCHANGED <<m_log, operation_status, lan_ok, net_status, net_check_counter,
                   m_pc, m_action, m_active>>

NextCoord ==
    \/ EnvNetwork
    \/ MainFrame
    \/ MainBlocked
    \/ MainAccept
    \/ MainSpawn
    \/ MainIgnore
    \/ MainNoAction
    \/ MainQuit
    \/ \E i \in TaskIds : TaskReturn(i)
    \/ \E i \in TaskIds : TaskRaise(i)
    \/ \E i \in TaskIds : TaskPublishDone(i)
    \/ \E i \in TaskIds : TaskPublishFailed(i)
    \/ \E i \in TaskIds : TaskReset(i)

(***************************************************************************)
(* Claims about the coordinator                                            *)
(***************************************************************************)
\* tasks between their launch (the flag set for them) and their reset
InFlight == Cardinality(LiveTasks) + (IF m_pc = "spawn" THEN 1 ELSE 0)

\* the loop body handles a trigger that arrived while operation_active is set
DropsTrigger ==
    /\ m_pc = "handle"
    /\ m_pc' # "handle"
    /\ m_action # "NONE"
    /\ operation_active

\* C1: single-flight gate.  A SEND or RECEIVE trigger that the main loop
\* handles while operation_active is true launches no task and leaves
\* operation_active and operation_status as they are; and at any time at most
\* one launched task is between its launch and its reset of operation_active.
C1_SingleFlight ==
    /\ [](InFlight <= 1)
    /\ [][DropsTrigger =>
            /\ m_pc' = "frame"
            /\ tasks' = tasks
            /\ operation_active' = operation_active
            /\ operation_status' = operation_status]_vars

\* a trigger was dropped while a send task was in flight
C1_Witness ==
    /\ m_log = "ignored"
    /\ m_action = "SEND"
    /\ operation_active
    /\ \E i \in TaskIds : Live(i) /\ tasks[i].kind = "SEND"

TerminalStatuses(kind) ==
    IF kind = "SEND" THEN {"SEND DONE", "SEND FAILED"}
                     ELSE {"RECEIVE DONE", "RECEIVE FAILED"}

\* task i ends in this step
Ends(i) == Live(i) /\ tasks'[i].pc = "done"

\* C2: guaranteed release.  A launched task that ends, whether start_sender /
\* start_receiver returned or raised, ends by setting operation_active to
\* false with a DONE or FAILED status of its kind already published; and
\* operation_active is true only while a launched task has not yet ended.
C2_GuaranteedRelease ==
    /\ [](operation_active => InFlight >= 1)
    /\ [][\A i \in TaskIds : Ends(i) =>
            /\ operation_status \in TerminalStatuses(tasks[i].kind)
            /\ operation_status' = operation_status
            /\ ~operation_active']_vars

\* a send task whose start_sender raised has ended
C2_Witness ==
    \E i \in TaskIds :
        /\ tasks[i].pc = "done"
        /\ tasks[i].kind = "SEND"
        /\ tasks[i].outcome = "raised"
        /\ operation_status = "SEND FAILED"
        /\ ~operation_active


(***************************************************************************)
(* Discovery engine: peer_discovery.py                                     *)
(***************************************************************************)
\* Addresses are dotted quads.  This node is 10.0.0.1 when it has a network;
\* up to two other hosts of its /24 run the program.
OwnAddr   == <<10, 0, 0, 1>>
Loopback  == <<127, 0, 0, 1>>
LinkLocal == <<169, 254, 0, 7>>
PeerA     == <<10, 0, 0, 5>>
PeerB     == <<10, 0, 0, 9>>

PeerIPs == {PeerA, PeerB}

\* source addresses of the datagrams the listener receives
SourceIPs == PeerIPs \cup {OwnAddr, Loopback, LinkLocal}

\* ip.startswith("127.") and ip.startswith("169.254.")
StartsWith127(ip) == ip[1] = 127

StartsWith169254(ip) == ip[1] = 169 /\ ip[2] = 254

\* A datagram is the sequence of its "|"-separated fields.
HELLO_HEADER == "GESTUREDROP_HELLO"

PROBE_MSG == <<"GESTUREDROP_PROBE">>

_build_hello(hostname, ip) == <<HELLO_HEADER, hostname, ip>>

Datagrams ==
    {PROBE_MSG, <<"IMAGE_READY", "10.0.0.5">>, <<HELLO_HEADER, "hostA">>,
     <<"HELLO", "hostA", "10.0.0.5">>}
        \cup {_build_hello(h, "10.0.0.5") : h \in {"", "hostA"}}

None == "None"

\* no datagram: recvfrom raised socket.timeout
NoDatagram == << >>

\* what recvfrom can return: a datagram, or none for a timeout
Received == Datagrams \cup {NoDatagram}

\* no address
NoAddr == << >>

\* a _parse_hello without the test of the header
_parse_hello_any(data) ==
    IF Len(data) >= 3 THEN <<data[2], data[3]>> ELSE <<None, None>>

\* _parse_hello: (hostname, ip), or (None, None) unless the datagram starts
\* with the header and a "|" and at least two fields follow
_parse_hello(data) ==
    IF Len(data) >= 2 /\ data[1] = HELLO_HEADER /\ Len(data) - 1 >= 2
        THEN <<data[2], data[3]>>
        ELSE <<None, None>>

\* `if hostname:`
Truthy(hostname) == hostname # None /\ hostname # ""

\* the listener skips self, loopback and APIPA senders
ListenerSkips(sender_ip) ==
    \/ sender_ip = own_ip
    \/ StartsWith127(sender_ip)
    \/ StartsWith169254(sender_ip)

\* a filter that lets a record of age PEER_TIMEOUT through
get_peers_inclusive(t) ==
    {[ip |-> ip, hostname |-> peers[ip].hostname,
      last_seen |-> peers[ip].last_seen, via |-> peers[ip].via] :
        ip \in {x \in DOMAIN peers : t - peers[x].last_seen <= PEER_TIMEOUT}}

\* get_peers() with `now` = t: the snapshot of the records younger than
\* PEER_TIMEOUT
get_peers(t) ==
    {[ip |-> ip, hostname |-> peers[ip].hostname,
      last_seen |-> peers[ip].last_seen, via |-> peers[ip].via] :
        ip \in {x \in DOMAIN peers : t - peers[x].last_seen < PEER_TIMEOUT}}

\* a best_peer() that returns the first record of the list
best_peer_first(snapshot) ==
    IF snapshot = {} THEN None
    ELSE CHOOSE r \in snapshot : \A q \in snapshot : q.ip[4] >= r.ip[4]

\* best_peer() on a snapshot: a record of greatest last_seen, or None
best_peer(snapshot) ==
    IF snapshot = {} THEN None
    ELSE CHOOSE r \in snapshot : \A q \in snapshot : q.last_seen <= r.last_seen

\* peer_count on a snapshot
peer_count(snapshot) == Cardinality(snapshot)

\* an upsert that takes every sighting for a new peer
IsNewAlways(ip) == TRUE

\* an upsert that tests the monitor's last snapshot instead of the table
IsNewStale(ip) == ip \notin last_peer_set

\* `is_new = ip not in self._peers`
IsNew(ip) == ip \notin DOMAIN peers

\* a sweep that evicts only records older than PEER_TIMEOUT
StaleStrict(t) == {ip \in DOMAIN peers : t - peers[ip].last_seen > PEER_TIMEOUT}

\* the monitor's `stale` list for `now` = t
Stale(t) == {ip \in DOMAIN peers : t - peers[ip].last_seen >= PEER_TIMEOUT}

\* what get_peers() would return for ip if it were called at this instant
Visible(ip) == ip \in DOMAIN peers /\ now - peers[ip].last_seen < PEER_TIMEOUT

\* the addresses probe() is started for: range(1, 255) of this node's /24
all_ips == {ip \in PeerIPs \cup {own_ip} :
               /\ ip[1] = own_ip[1] /\ ip[2] = own_ip[2] /\ ip[3] = own_ip[3]
               /\ ip[4] \in 1..254}

Joined(log) == Cardinality({k \in 1..Len(log) : log[k] = "joined"})

Left(log) == Cardinality({k \in 1..Len(log) : log[k] = "left"})

\* threads that have inserted ip as new and not yet called on_peer_joined
PendingJoins(ip) ==
    (IF l_pc = "fire" /\ l_join = ip THEN 1 ELSE 0)
        + (IF probes[ip] = "fire" THEN 1 ELSE 0)

\* PeerDiscovery.__init__, before start(); both callbacks are set
DiscConstructed ==
    /\ now = 0
    /\ started = FALSE
    /\ stop_event = FALSE
    /\ stop_calls = "never"
    /\ peers = << >>
    /\ last_peer_set = {}
    /\ b_pc = "off"
    /\ l_pc = "off"
    /\ l_join = NoAddr
    /\ p_pc = "off"
    /\ probes = [t \in PeerIPs |-> "idle"]
    /\ mon_pc = "off"
    /\ mon_now = 0
    /\ a_pc = "idle"
    /\ a_now = 0
    /\ a_result = {}
    /\ cb_log = [ip \in PeerIPs |-> << >>]
    /\ evicted = [ip \in PeerIPs |-> 0]
    /\ refreshed = [ip \in PeerIPs |-> FALSE]
    /\ phase = [ip \in PeerIPs |-> "unknown"]

ghostVars == <<cb_log, evicted, refreshed, phase, stop_calls>>

\* time passes
Tick ==
    /\ now + TickStep <= MaxTime
    /\ now' = now + TickStep
    /\ phase' = [ip \in PeerIPs |->
                    IF phase[ip] = "live"
                           /\ ~(now' - peers[ip].last_seen < PEER_TIMEOUT)
                        THEN "expired" ELSE phase[ip]]
    /\ UNCHANGED <<coordVars, recvVars, servVars, sendVars, fnVars,
                   own_ip, lan_hosts, started, stop_event, peers,
                   last_peer_set, b_pc, l_pc, l_join, p_pc, probes, mon_pc,
                   mon_now, a_pc, a_now, a_result, cb_log, evicted, refreshed,
                   stop_calls>>

\* a start() without the test of the own address: the threads are started
\* on a loopback node too
StartIgnoresNetwork ==
    /\ ~started
    /\ StartsWith127(own_ip)
    /\ started' = TRUE
    /\ b_pc' = "loop"
    /\ l_pc' = "bind"
    /\ p_pc' = "delay"
    /\ mon_pc' = "loop"
    /\ UNCHANGED <<coordVars, recvVars, servVars, sendVars, fnVars,
                   now, own_ip, lan_hosts, stop_event, peers,
                   last_peer_set, l_join, probes, mon_now, a_pc, a_now,
                   a_result, ghostVars>>

\* start() on a node whose own address is loopback: nothing is spawned
StartNoNetwork ==
    /\ ~started
    /\ StartsWith127(own_ip)
    /\ started' = TRUE
    /\ UNCHANGED <<coordVars, recvVars, servVars, sendVars, fnVars,
                   now, own_ip, lan_hosts, stop_event, peers,
                   last_peer_set, b_pc, l_pc, l_join, p_pc, probes, mon_pc,
                   mon_now, a_pc, a_now, a_result, ghostVars>>

\* start(): the four daemon threads are started
StartThreads ==
    /\ ~started
    /\ ~StartsWith127(own_ip)
    /\ started' = TRUE
    /\ b_pc' = "loop"
    /\ l_pc' = "bind"
    /\ p_pc' = "delay"
    /\ mon_pc' = "loop"
    /\ UNCHANGED <<coordVars, recvVars, servVars, sendVars, fnVars,
                   now, own_ip, lan_hosts, stop_event, peers,
                   last_peer_set, l_join, probes, mon_now, a_pc, a_now,
                   a_result, ghostVars>>

\* stop(): self._stop_event.set()
Stop ==
    /\ stop_event' = TRUE
    /\ stop_calls' = IF stop_calls = "never" THEN "once" ELSE "again"
    /\ UNCHANGED <<coordVars, recvVars, servVars, sendVars, fnVars,
                   now, own_ip, lan_hosts, started, peers,
                   last_peer_set, b_pc, l_pc, l_join, p_pc, probes, mon_pc,
                   mon_now, a_pc, a_now, a_result, cb_log, evicted, refreshed,
                   phase>>

\* ---- thread 1: _broadcaster ----
\* `while not is_set()`: sendto (failures swallowed), then wait; wait()
\* returns after HEARTBEAT_INTERVAL or as soon as the event is set
BroadcasterStep ==
    /\ \/ b_pc = "loop" /\ b_pc' = (IF stop_event THEN "done" ELSE "wait")
       \/ b_pc = "wait" /\ b_pc' = "loop"
    /\ UNCHANGED <<coordVars, recvVars, servVars, sendVars, fnVars,
                   now, own_ip, lan_hosts, started, stop_event,
                   peers, last_peer_set, l_pc, l_join, p_pc, probes, mon_pc,
                   mon_now, a_pc, a_now, a_result, ghostVars>>

\* _upsert_peer's locked block: the membership test and the write of the
\* record, with last_seen = time.time()
UpsertLocked(ip, hostname, via) ==
    /\ peers' = [x \in DOMAIN peers \cup {ip} |->
                    IF x = ip
                        THEN [hostname |-> hostname, last_seen |-> now,
                              via |-> via]
                        ELSE peers[x]]
    /\ refreshed' = [refreshed EXCEPT ![ip] = ip \in DOMAIN peers]
    /\ phase' = [phase EXCEPT ![ip] = "live"]

\* on_peer_joined(peer) is called
FireJoined(ip) == cb_log' = [cb_log EXCEPT ![ip] = Append(@, "joined")]

\* ---- thread 2: _listener ----
\* the listener's `while not is_set()` test, then recvfrom
ListenerNext == IF stop_event THEN "done" ELSE "recv"

\* sock.bind succeeds, or fails and the thread returns
ListenerBind ==
    /\ l_pc = "bind"
    /\ l_pc' \in {ListenerNext, "done"}
    /\ UNCHANGED <<coordVars, recvVars, servVars, sendVars, fnVars,
                   now, own_ip, lan_hosts, started, stop_event,
                   peers, last_peer_set, b_pc, l_join, p_pc, probes, mon_pc,
                   mon_now, a_pc, a_now, a_result, ghostVars>>

\* what the listener does not upsert: recvfrom timed out after 1 s
\* (continue), or the datagram is from a skipped sender, is a probe request
\* (answered with this node's hello), or is no well-formed hello
ListenerDiscards(sender_ip, data) ==
    \/ data = NoDatagram                    \* socket.timeout
    \/ ListenerSkips(sender_ip)
    \/ data = PROBE_MSG
    \/ ~Truthy(_parse_hello(data)[1])

\* recvfrom ends without an upsert
ListenerDiscard ==
    /\ l_pc = "recv"
    /\ {x \in SourceIPs \X Received : ListenerDiscards(x[1], x[2])} # {}
    /\ l_pc' = ListenerNext
    /\ UNCHANGED <<coordVars, recvVars, servVars, sendVars, fnVars,
                   now, own_ip, lan_hosts, started, stop_event,
                   peers, last_peer_set, b_pc, l_join, p_pc, probes, mon_pc,
                   mon_now, a_pc, a_now, a_result, ghostVars>>

\* recvfrom returns a hello: _upsert_peer(sender_ip, hostname, "broadcast")
\* up to the end of its locked block
ListenerHello(sender_ip, data) ==
    /\ l_pc = "recv"
    /\ data # NoDatagram
    /\ ~ListenerSkips(sender_ip)
    /\ data # PROBE_MSG
    /\ Truthy(_parse_hello(data)[1])
    /\ UpsertLocked(sender_ip, _parse_hello(data)[1], "broadcast")
    /\ IF IsNew(sender_ip)
         THEN l_pc' = "fire" /\ l_join' = sender_ip
         ELSE l_pc' = ListenerNext /\ UNCHANGED l_join
    /\ UNCHANGED <<coordVars, recvVars, servVars, sendVars, fnVars,
                   now, own_ip, lan_hosts, started, stop_event,
                   last_peer_set, b_pc, p_pc, probes, mon_pc, mon_now,
                   a_pc, a_now, a_result, cb_log, evicted, stop_calls>>

\* `if is_new:` on_peer_joined is called, outside the lock
ListenerFire ==
    /\ l_pc = "fire"
    /\ FireJoined(l_join)
    /\ l_pc' = ListenerNext
    /\ l_join' = NoAddr
    /\ UNCHANGED <<coordVars, recvVars, servVars, sendVars, fnVars,
                   now, own_ip, lan_hosts, started, stop_event,
                   peers, last_peer_set, b_pc, p_pc, probes, mon_pc, mon_now,
                   a_pc, a_now, a_result, evicted, refreshed, phase,
                   stop_calls>>

\* ---- thread 3: _probe_scanner ----
\* wait(5) or wait(PROBE_INTERVAL) returns; unless the event is set, a probe
\* thread is started for every address of all_ips.  The model follows the
\* threads whose target is a host that answers (one per target at a time);
\* the thread for own_ip returns at once and the others time out.  The joins
\* time out, so the scanner goes on whatever the threads do.
ScannerStep ==
    /\ p_pc \in {"delay", "sleep"}
    /\ IF stop_event
         THEN p_pc' = "done" /\ UNCHANGED probes
         ELSE /\ p_pc' = "sleep"
              /\ probes' = [t \in PeerIPs |->
                               IF /\ t \in all_ips \cap lan_hosts
                                  /\ t # own_ip
                                  /\ probes[t] = "idle"
                                   THEN "sent" ELSE probes[t]]
    /\ UNCHANGED <<coordVars, recvVars, servVars, sendVars, fnVars,
                   now, own_ip, lan_hosts, started, stop_event,
                   peers, last_peer_set, b_pc, l_pc, l_join, mon_pc, mon_now,
                   a_pc, a_now, a_result, ghostVars>>

\* probe(target_ip): no reply within PROBE_TIMEOUT, an OSError, or a reply
\* that is no hello
ProbeNoHello(t) ==
    /\ probes[t] = "sent"
    /\ {data \in Received :
          data = NoDatagram \/ ~Truthy(_parse_hello(data)[1])} # {}
    /\ probes' = [probes EXCEPT ![t] = "idle"]
    /\ UNCHANGED <<coordVars, recvVars, servVars, sendVars, fnVars,
                   now, own_ip, lan_hosts, started, stop_event,
                   peers, last_peer_set, b_pc, l_pc, l_join, p_pc, mon_pc,
                   mon_now, a_pc, a_now, a_result, ghostVars>>

\* the target replies with its hello: _upsert_peer(addr[0], hostname,
\* "direct") up to the end of its locked block
ProbeHello(t, data) ==
    /\ probes[t] = "sent"
    /\ data # NoDatagram
    /\ Truthy(_parse_hello(data)[1])
    /\ UpsertLocked(t, _parse_hello(data)[1], "direct")
    /\ probes' = [probes EXCEPT ![t] = IF IsNew(t) THEN "fire" ELSE "idle"]
    /\ UNCHANGED <<coordVars, recvVars, servVars, sendVars, fnVars,
                   now, own_ip, lan_hosts, started, stop_event,
                   last_peer_set, b_pc, l_pc, l_join, p_pc, mon_pc, mon_now,
                   a_pc, a_now, a_result, cb_log, evicted, stop_calls>>

\* `if is_new:` on_peer_joined is called, outside the lock
ProbeFire(t) ==
    /\ probes[t] = "fire"
    /\ FireJoined(t)
    /\ probes' = [probes EXCEPT ![t] = "idle"]
    /\ UNCHANGED <<coordVars, recvVars, servVars, sendVars, fnVars,
                   now, own_ip, lan_hosts, started, stop_event,
                   peers, last_peer_set, b_pc, l_pc, l_join, p_pc, mon_pc,
                   mon_now, a_pc, a_now, a_result, evicted, refreshed, phase,
                   stop_calls>>

\* ---- thread 4: _cleanup_monitor ----
\* a monitor loop that never tests the event
MonitorNextNever == "wait"

\* the monitor's `while not is_set()` test, then wait(1.0)
MonitorNext == IF stop_event THEN "done" ELSE "wait"

\* the thread's first test of the event
MonitorPoll ==
    /\ mon_pc = "loop"
    /\ mon_pc' = MonitorNext
    /\ UNCHANGED <<coordVars, recvVars, servVars, sendVars, fnVars,
                   now, own_ip, lan_hosts, started, stop_event,
                   peers, last_peer_set, b_pc, l_pc, l_join, p_pc, probes,
                   mon_now, a_pc, a_now, a_result, ghostVars>>

\* wait(1.0) returns (at once when the event is set); now = time.time()
MonitorWake ==
    /\ mon_pc = "wait"
    /\ mon_now' = now
    /\ mon_pc' = "sweep"
    /\ UNCHANGED <<coordVars, recvVars, servVars, sendVars, fnVars,
                   now, own_ip, lan_hosts, started, stop_event,
                   peers, last_peer_set, b_pc, l_pc, l_join, p_pc, probes,
                   a_pc, a_now, a_result, ghostVars>>

\* the addresses on_peer_left is called for in a sweep that deletes `stale`
LeftReported(stale) == stale

\* the locked block: every stale record is deleted and reported as left
MonitorSweep ==
    /\ mon_pc = "sweep"
    /\ LET stale == Stale(mon_now)
       IN /\ peers' = [x \in DOMAIN peers \ stale |-> peers[x]]
          /\ cb_log' = [ip \in PeerIPs |->
                           IF ip \in LeftReported(stale)
                               THEN Append(cb_log[ip], "left")
                               ELSE cb_log[ip]]
          /\ evicted' = [ip \in PeerIPs |->
                            IF ip \in stale THEN evicted[ip] + 1
                                            ELSE evicted[ip]]
          /\ refreshed' = [ip \in PeerIPs |->
                              IF ip \in stale THEN FALSE ELSE refreshed[ip]]
          /\ phase' = [ip \in PeerIPs |->
                          IF ip \in stale THEN "left" ELSE phase[ip]]
    /\ mon_pc' = "peers"
    /\ mon_now' = 0
    /\ UNCHANGED <<coordVars, recvVars, servVars, sendVars, fnVars,
                   now, own_ip, lan_hosts, started, stop_event,
                   last_peer_set, b_pc, l_pc, l_join, p_pc, probes,
                   a_pc, a_now, a_result, stop_calls>>

\* self.get_peers() reads the clock
MonitorReadNow ==
    /\ mon_pc = "peers"
    /\ mon_now' = now
    /\ mon_pc' = "scan"
    /\ UNCHANGED <<coordVars, recvVars, servVars, sendVars, fnVars,
                   now, own_ip, lan_hosts, started, stop_event,
                   peers, last_peer_set, b_pc, l_pc, l_join, p_pc, probes,
                   a_pc, a_now, a_result, ghostVars>>

\* current_ips is compared with _last_peer_set and stored when it differs;
\* then the loop tests the event
MonitorScan ==
    /\ mon_pc = "scan"
    /\ LET current_ips == {r.ip : r \in get_peers(mon_now)}
           new_ips == current_ips \ last_peer_set
       IN last_peer_set' =
              IF new_ips # {} \/ current_ips # last_peer_set
                  THEN current_ips ELSE last_peer_set
    /\ mon_pc' = MonitorNext
    /\ mon_now' = 0
    /\ UNCHANGED <<coordVars, recvVars, servVars, sendVars, fnVars,
                   now, own_ip, lan_hosts, started, stop_event,
                   peers, b_pc, l_pc, l_join, p_pc, probes,
                   a_pc, a_now, a_result, ghostVars>>

\* ---- an application thread ----
\* get_peers(): now = time.time()
AppCall ==
    /\ a_pc = "idle"
    /\ a_now' = now
    /\ a_pc' = "called"
    /\ UNCHANGED <<coordVars, recvVars, servVars, sendVars, fnVars,
                   now, own_ip, lan_hosts, started, stop_event,
                   peers, last_peer_set, b_pc, l_pc, l_join, p_pc, probes,
                   mon_pc, mon_now, a_result, ghostVars>>

\* get_peers(): the locked list comprehension; the list is returned
AppReturn ==
    /\ a_pc = "called"
    /\ a_result' = get_peers(a_now)
    /\ a_pc' = "returned"
    /\ UNCHANGED <<coordVars, recvVars, servVars, sendVars, fnVars,
                   now, own_ip, lan_hosts, started, stop_event,
                   peers, last_peer_set, b_pc, l_pc, l_join, p_pc, probes,
                   mon_pc, mon_now, a_now, ghostVars>>

\* the caller drops the list
AppDrop ==
    /\ a_pc = "returned"
    /\ a_result' = {}
    /\ a_now' = 0
    /\ a_pc' = "idle"
    /\ UNCHANGED <<coordVars, recvVars, servVars, sendVars, fnVars,
                   now, own_ip, lan_hosts, started, stop_event,
                   peers, last_peer_set, b_pc, l_pc, l_join, p_pc, probes,
                   mon_pc, mon_now, ghostVars>>

\* ---- the objects get_peers() hands out ----
\* The interpreter's objects are modelled here, to tell a copy from a
\* reference: fn_in is the heap, the sequence of the dicts created so far (a
\* dict's identity is its index), and fn_out names the info dict that
\* self._peers holds for each ip (table) and the dicts of the list a caller
\* got from get_peers() or best_peer() (result).

\* the most dicts the heap holds
MaxObjs == 4

\* the ips of the table in the order of the list comprehension
TableOrder == <<PeerA, PeerB>>

\* the table as its readers see it
TableView == [ip \in DOMAIN fn_out.table |-> fn_in[fn_out.table[ip]]]

\* the returned list as its holder sees it
SnapshotView == [k \in 1..Len(fn_out.result) |-> fn_in[fn_out.result[k]]]

\* the ips of the records younger than PEER_TIMEOUT at time t
LiveIps(t) ==
    SelectSeq(TableOrder,
              LAMBDA ip : /\ ip \in DOMAIN fn_out.table
                          /\ t - fn_in[fn_out.table[ip]].last_seen < PEER_TIMEOUT)

\* {"ip": ip, **info}: a new dict with the items of info
Copies(live) ==
    [k \in 1..Len(live) |->
        [ip |-> live[k],
         hostname |-> fn_in[fn_out.table[live[k]]].hostname,
         last_seen |-> fn_in[fn_out.table[live[k]]].last_seen,
         via |-> fn_in[fn_out.table[live[k]]].via]]

\* a get_peers() whose list holds the table's own info dicts
SnapshotIdsLive(live) == [k \in 1..Len(live) |-> fn_out.table[live[k]]]

\* the dicts of the list get_peers() returns: the new ones
SnapshotIds(live) == [k \in 1..Len(live) |-> Len(fn_in) + k]

\* a caller's get_peers()
SnapGetPeers ==
    /\ Len(fn_in) + Len(LiveIps(now)) <= MaxObjs
    /\ fn_in' = fn_in \o Copies(LiveIps(now))
    /\ fn_out' = [fn_out EXCEPT !.result = SnapshotIds(LiveIps(now))]
    /\ UNCHANGED <<coordVars, discVars, recvVars, servVars, sendVars>>

\* a caller's best_peer(): max(peers, key=last_seen) of get_peers()
SnapBestPeer ==
    /\ LiveIps(now) # << >>
    /\ Len(fn_in) + Len(LiveIps(now)) <= MaxObjs
    /\ fn_in' = fn_in \o Copies(LiveIps(now))
    /\ LET ids == SnapshotIds(LiveIps(now))
           best == CHOOSE k \in 1..Len(ids) :
                       \A j \in 1..Len(ids) :
                           fn_in'[ids[j]].last_seen <= fn_in'[ids[k]].last_seen
       IN fn_out' = [fn_out EXCEPT !.result = <<ids[best]>>]
    /\ UNCHANGED <<coordVars, discVars, recvVars, servVars, sendVars>>

\* the caller writes to a dict it was given
SnapMutateRecord(k) ==
    /\ k \in 1..Len(fn_out.result)
    /\ fn_in' = [fn_in EXCEPT ![fn_out.result[k]].hostname = "changed",
                              ![fn_out.result[k]].last_seen = MaxTime]
    /\ UNCHANGED <<coordVars, discVars, recvVars, servVars, sendVars, fn_out>>

\* the caller removes the first item of the list it was given
SnapMutateList ==
    /\ fn_out.result # << >>
    /\ fn_out' = [fn_out EXCEPT !.result = Tail(@)]
    /\ UNCHANGED <<coordVars, discVars, recvVars, servVars, sendVars, fn_in>>

\* _upsert_peer(ip, "hostA", "broadcast"): self._peers[ip] = {...}, a new dict
SnapUpsert(ip) ==
    /\ Len(fn_in) < MaxObjs
    /\ fn_in' = Append(fn_in, [hostname |-> "hostA", last_seen |-> now,
                               via |-> "broadcast"])
    /\ fn_out' = [fn_out EXCEPT !.table =
                     [x \in DOMAIN fn_out.table \cup {ip} |->
                         IF x = ip THEN Len(fn_in) + 1 ELSE fn_out.table[x]]]
    /\ UNCHANGED <<coordVars, discVars, recvVars, servVars, sendVars>>

\* the sweep's del self._peers[ip] of a stale record
SnapEvict(ip) ==
    /\ ip \in DOMAIN fn_out.table
    /\ now - fn_in[fn_out.table[ip]].last_seen >= PEER_TIMEOUT
    /\ fn_out' = [fn_out EXCEPT !.table =
                     [x \in DOMAIN fn_out.table \ {ip} |-> fn_out.table[x]]]
    /\ UNCHANGED <<coordVars, discVars, recvVars, servVars, sendVars, fn_in>>

\* the engine's changes of the table
SnapTableChange == \E ip \in PeerIPs : SnapUpsert(ip) \/ SnapEvict(ip)

\* the caller's changes of what it was given
SnapCallerChange ==
    \/ \E k \in 1..MaxObjs : SnapMutateRecord(k)
    \/ SnapMutateList

NextSnap ==
    \/ Tick
    \/ SnapGetPeers
    \/ SnapBestPeer
    \/ SnapTableChange
    \/ SnapCallerChange

\* ---- the user's callbacks and the table's lock ----
\* what a user's callback can do: return, raise an exception, or call
\* get_peers() (best_peer() and peer_count call it too)
Behaviours == {"returns", "raises", "queries"}

\* the monitor is inside `with self._lock:` (from the stale list to the end
\* of the for loop, the call of on_peer_left included)
LockHeld == mon_pc \in {"locked", "in_left", "blocked"}

\* a sweep whose callback's exception is not caught: the thread ends
SweepAfterUncaught(b) ==
    IF b = "queries" THEN "blocked"
    ELSE IF b = "raises" THEN "done" ELSE "locked"

\* where the monitor is after on_peer_left(ip): in the for loop again when
\* the callback returned or raised (try / except Exception: pass); waiting
\* for the threading.Lock it holds itself when the callback called
\* get_peers()
SweepAfter(b) == IF b = "queries" THEN "blocked" ELSE "locked"

\* what the log records of a callback's end: an exception
Outcome(b) == IF b = "raises" THEN <<"raised">> ELSE << >>

\* on_peer_left(ip) is running
InCallback(ip) == phase[ip] = "leaving"

\* `with self._lock:` is entered by the monitor
MonitorLock ==
    /\ mon_pc = "sweep"
    /\ mon_pc' = "locked"
    /\ UNCHANGED <<coordVars, recvVars, servVars, sendVars, fnVars,
                   now, own_ip, lan_hosts, started, stop_event,
                   peers, last_peer_set, b_pc, l_pc, l_join, p_pc, probes,
                   mon_now, a_pc, a_now, a_result, ghostVars>>

\* one pass of `for ip in stale:` up to the call of on_peer_left(ip)
MonitorEvictOne(ip) ==
    /\ mon_pc = "locked"
    /\ ip \in Stale(mon_now)
    /\ peers' = [x \in DOMAIN peers \ {ip} |-> peers[x]]
    /\ cb_log' = [cb_log EXCEPT ![ip] = Append(@, "left")]
    /\ evicted' = [evicted EXCEPT ![ip] = @ + 1]
    /\ refreshed' = [refreshed EXCEPT ![ip] = FALSE]
    /\ phase' = [phase EXCEPT ![ip] = "leaving"]
    /\ mon_pc' = "in_left"
    /\ UNCHANGED <<coordVars, recvVars, servVars, sendVars, fnVars,
                   now, own_ip, lan_hosts, started, stop_event,
                   last_peer_set, b_pc, l_pc, l_join, p_pc, probes,
                   mon_now, a_pc, a_now, a_result, stop_calls>>

\* on_peer_left(ip) does what the user wrote
CallbackLeftEnds(ip, b) ==
    /\ mon_pc = "in_left"
    /\ InCallback(ip)
    /\ cb_log' = [cb_log EXCEPT ![ip] = @ \o Outcome(b)]
    /\ phase' = [phase EXCEPT ![ip] = "left"]
    /\ mon_pc' = SweepAfter(b)
    /\ UNCHANGED <<coordVars, recvVars, servVars, sendVars, fnVars,
                   now, own_ip, lan_hosts, started, stop_event,
                   peers, last_peer_set, b_pc, l_pc, l_join, p_pc, probes,
                   mon_now, a_pc, a_now, a_result, evicted, refreshed,
                   stop_calls>>

\* the for loop is over and the lock is released
MonitorUnlock ==
    /\ mon_pc = "locked"
    /\ Stale(mon_now) = {}
    /\ mon_pc' = "peers"
    /\ mon_now' = 0
    /\ UNCHANGED <<coordVars, recvVars, servVars, sendVars, fnVars,
                   now, own_ip, lan_hosts, started, stop_event,
                   peers, last_peer_set, b_pc, l_pc, l_join, p_pc, probes,
                   a_pc, a_now, a_result, ghostVars>>

\* the listener's upsert enters `with self._lock:` when no thread holds it
ListenerUpsert(sender_ip, data) ==
    /\ ~LockHeld
    /\ ListenerHello(sender_ip, data)

\* the listener calls on_peer_joined(peer); a callback that calls
\* get_peers() waits for the lock
ListenerCallback(b) ==
    /\ l_pc = "fire"
    /\ b = "queries" => ~LockHeld
    /\ cb_log' = [cb_log EXCEPT ![l_join] = @ \o <<"joined">> \o Outcome(b)]
    /\ l_pc' = ListenerNext
    /\ l_join' = NoAddr
    /\ UNCHANGED <<coordVars, recvVars, servVars, sendVars, fnVars,
                   now, own_ip, lan_hosts, started, stop_event,
                   peers, last_peer_set, b_pc, p_pc, probes, mon_pc, mon_now,
                   a_pc, a_now, a_result, evicted, refreshed, phase,
                   stop_calls>>

\* the monitor's get_peers() after the sweep
MonitorPeers == MonitorReadNow \/ MonitorScan

\* the monitor and the listener with callbacks of every behaviour, at one
\* reading of the clock
NextCb ==
    \/ MonitorWake
    \/ MonitorLock
    \/ \E ip \in PeerIPs : MonitorEvictOne(ip)
    \/ \E ip \in PeerIPs, b \in Behaviours : CallbackLeftEnds(ip, b)
    \/ MonitorUnlock
    \/ MonitorPeers
    \/ \E ip \in PeerIPs, data \in Datagrams : ListenerUpsert(ip, data)
    \/ \E b \in Behaviours : ListenerCallback(b)

\* ---- the datagrams of the two discovery channels ----
\* socket.gethostname() of this node
own_hostname == "me"

\* the record _upsert_peer writes for ip, with last_seen = time.time()
Upserted(ip, hostname, via) ==
    [x \in DOMAIN peers \cup {ip} |->
        IF x = ip
            THEN [hostname |-> hostname, last_seen |-> now, via |-> via]
            ELSE peers[x]]

\* _upsert_peer(ip, hostname, via) as a whole: the locked block and, for a
\* new record, the call of on_peer_joined
UpsertWhole(ip, hostname, via) ==
    /\ peers' = Upserted(ip, hostname, via)
    /\ cb_log' = [x \in PeerIPs |->
                     IF x = ip /\ IsNew(ip) THEN Append(cb_log[x], "joined")
                                            ELSE cb_log[x]]
    /\ refreshed' = [x \in PeerIPs |->
                        IF x = ip THEN ~IsNew(ip) ELSE refreshed[x]]
    /\ phase' = [x \in PeerIPs |-> IF x = ip THEN "live" ELSE phase[x]]

\* one pass of the listener's loop body for the datagram `data` from
\* sender_ip: fn_in is the datagram received, fn_out the datagram sent in
\* reply and where to
ListenerRecv(sender_ip, data) ==
    /\ l_pc = "recv"
    /\ fn_in' = <<sender_ip, data>>
    /\ l_pc' = ListenerNext
    /\ IF ListenerSkips(sender_ip)
         THEN /\ fn_out' = << >>
              /\ UNCHANGED <<peers, cb_log, refreshed, phase>>
         ELSE IF data = PROBE_MSG
         THEN /\ fn_out' = <<sender_ip, _build_hello(own_hostname, own_ip)>>
              /\ UNCHANGED <<peers, cb_log, refreshed, phase>>
         ELSE IF Truthy(_parse_hello(data)[1])
         THEN /\ fn_out' = << >>
              /\ UpsertWhole(sender_ip, _parse_hello(data)[1], "broadcast")
         ELSE /\ fn_out' = << >>
              /\ UNCHANGED <<peers, cb_log, refreshed, phase>>
    /\ UNCHANGED <<coordVars, recvVars, servVars, sendVars,
                   now, own_ip, lan_hosts, started, stop_event,
                   last_peer_set, b_pc, l_join, p_pc, probes, mon_pc,
                   mon_now, a_pc, a_now, a_result, evicted, stop_calls>>

\* probe(target_ip): s.recvfrom returns the datagram `data` from the
\* address src, whichever host sent it to the probe's port
ProbeReply(t, src, data) ==
    /\ probes[t] = "sent"
    /\ probes' = [probes EXCEPT ![t] = "idle"]
    /\ IF Truthy(_parse_hello(data)[1])
         THEN UpsertWhole(src, _parse_hello(data)[1], "direct")
         ELSE UNCHANGED <<peers, cb_log, refreshed, phase>>
    /\ UNCHANGED <<coordVars, recvVars, servVars, sendVars, fnVars,
                   now, own_ip, lan_hosts, started, stop_event,
                   last_peer_set, b_pc, l_pc, l_join, p_pc, mon_pc, mon_now,
                   a_pc, a_now, a_result, evicted, stop_calls>>

\* the listener and the probe threads with the datagrams they receive
NextListen ==
    \/ \E src \in SourceIPs, data \in Datagrams : ListenerRecv(src, data)
    \/ ScannerStep
    \/ \E t \in PeerIPs : ProbeNoHello(t)
    \/ \E t \in PeerIPs, src \in SourceIPs, data \in Datagrams :
          ProbeReply(t, src, data)

ListenerStep ==
    \/ ListenerBind
    \/ ListenerDiscard
    \/ \E src \in lan_hosts, data \in Received : ListenerHello(src, data)
    \/ ListenerFire

ProbeStep ==
    \/ \E t \in PeerIPs : ProbeNoHello(t)
    \/ \E t \in PeerIPs, data \in Received : ProbeHello(t, data)
    \/ \E t \in PeerIPs : ProbeFire(t)

MonitorStep ==
    \/ MonitorPoll
    \/ MonitorWake
    \/ MonitorSweep
    \/ MonitorReadNow
    \/ MonitorScan

AppStep ==
    \/ AppCall
    \/ AppReturn
    \/ AppDrop

\* the table and every thread that reads or writes it, on a running engine
NextDisc ==
    \/ Tick
    \/ ListenerStep
    \/ ScannerStep
    \/ ProbeStep
    \/ MonitorStep
    \/ AppStep

\* the listener, the monitor and the clock
NextEvict ==
    \/ Tick
    \/ ListenerStep
    \/ MonitorStep

\* calls of get_peers() and best_peer() while time passes
NextBest == Tick \/ AppStep

\* start(), stop() and the threads start() spawns
NextLife ==
    \/ StartNoNetwork
    \/ StartThreads
    \/ Stop
    \/ BroadcasterStep
    \/ ListenerStep
    \/ ScannerStep
    \/ ProbeStep
    \/ MonitorStep

(***************************************************************************)
(* Claims about the discovery engine                                       *)
(***************************************************************************)
\* C3: every record get_peers() returns (hence the one best_peer() picks
\* and those peer_count counts) is younger than PEER_TIMEOUT at the time the
\* call read the clock, whether or not the monitor has swept the table.
C3_NoStaleRecordReturned ==
    a_pc = "returned" =>
        /\ \A r \in a_result : a_now - r.last_seen < PEER_TIMEOUT
        /\ a_result # {} =>
               /\ best_peer(a_result) \in a_result
               /\ a_now - best_peer(a_result).last_seen < PEER_TIMEOUT
        /\ peer_count(a_result) = Cardinality(a_result)

\* get_peers() returned nothing while the table still holds PeerA's record,
\* which had reached PEER_TIMEOUT and was not yet swept
C3_Witness ==
    /\ a_pc = "returned"
    /\ a_result = {}
    /\ PeerA \in DOMAIN peers
    /\ a_now - peers[PeerA].last_seen >= PEER_TIMEOUT

\* C21: best_peer() returns None exactly when the get_peers() it calls
\* returns nothing; otherwise it returns one of the live records, younger
\* than PEER_TIMEOUT when the call read the clock, and no live record has a
\* greater last_seen
C21_BestPeerMostRecent ==
    a_pc = "returned" =>
        IF a_result = {}
            THEN best_peer(a_result) = None
            ELSE /\ best_peer(a_result) \in a_result
                 /\ best_peer(a_result).ip \in PeerIPs
                 /\ a_now - best_peer(a_result).last_seen < PEER_TIMEOUT
                 /\ \A q \in a_result :
                        q.last_seen <= best_peer(a_result).last_seen

\* best_peer() chose between two live records, and picked PeerB, the one
\* seen later
C21_Witness ==
    /\ a_pc = "returned"
    /\ Cardinality(a_result) = 2
    /\ best_peer(a_result).ip = PeerB
    /\ \E q \in a_result :
           q.ip = PeerA /\ q.last_seen < best_peer(a_result).last_seen

InTable(ip) == IF ip \in DOMAIN peers THEN 1 ELSE 0

\* C4: on_peer_joined is fired once for the insertion of a record and never
\* for a refresh: the joins fired or about to be fired for an address are
\* one per record it has had, so a second upsert of an address whose record
\* is still there fires nothing and an upsert after its eviction fires again.
C4_JoinOncePerRecord ==
    \A ip \in PeerIPs :
        Joined(cb_log[ip]) + PendingJoins(ip) = evicted[ip] + InTable(ip)

\* PeerA joined, was refreshed, was evicted, joined again and was refreshed
C4_Witness ==
    /\ Joined(cb_log[PeerA]) = 2
    /\ PendingJoins(PeerA) = 0
    /\ evicted[PeerA] = 1
    /\ refreshed[PeerA]
    /\ now - peers[PeerA].last_seen < PEER_TIMEOUT

\* C5: the upsert is race-safe.  While an address has not been evicted, the
\* listener and the probe threads together fire (or are about to fire)
\* on_peer_joined exactly once if it is in the table and not at all
\* otherwise; and a thread comes to owe a join only in the step that
\* inserts the record.
C5_RaceSafeUpsert ==
    /\ [](\A ip \in PeerIPs : evicted[ip] = 0 =>
             Joined(cb_log[ip]) + PendingJoins(ip) = InTable(ip))
    /\ [][\A ip \in PeerIPs :
             PendingJoins(ip)' > PendingJoins(ip) =>
                 /\ ip \notin DOMAIN peers
                 /\ ip \in DOMAIN peers'
                 /\ PendingJoins(ip)' = PendingJoins(ip) + 1]_vars

\* the listener inserted PeerA and, before it called on_peer_joined, the
\* probe thread sighted PeerA too and fired nothing
C5_Witness ==
    /\ l_pc = "fire"
    /\ l_join = PeerA
    /\ probes[PeerA] = "idle"
    /\ refreshed[PeerA]
    /\ peers[PeerA].via = "direct"
    /\ evicted[PeerA] = 0
    /\ cb_log[PeerA] = << >>

\* C6: joins and leaves are never silently merged.  When an address that
\* get_peers() had stopped returning is returned again after a re-sighting,
\* on_peer_left has been fired for it since it expired and the re-sighting
\* thread fires on_peer_joined.
C6_NeverSilentlyMerged ==
    [][\A ip \in PeerIPs :
          (phase[ip] \in {"expired", "left"} /\ phase'[ip] = "live") =>
              /\ phase[ip] = "left"
              /\ PendingJoins(ip)' = PendingJoins(ip) + 1]_vars

Expired(ip) ==
    ip \in DOMAIN peers /\ now - peers[ip].last_seen >= PEER_TIMEOUT

Deleted(ip) == ip \in DOMAIN peers /\ ip \notin DOMAIN peers'

\* C7: TTL eviction.  On a running engine a record that has reached
\* PEER_TIMEOUT is eventually deleted unless it is re-sighted; a record is
\* deleted only once it has reached PEER_TIMEOUT; and on_peer_left is fired
\* once for an address in the step that deletes its record and in no other.
C7_Eviction ==
    /\ \A ip \in PeerIPs : Expired(ip) ~> ~Expired(ip)
    /\ [][\A ip \in PeerIPs :
             /\ Deleted(ip) => Expired(ip)
             /\ Left(cb_log'[ip]) - Left(cb_log[ip])
                    = (IF Deleted(ip) THEN 1 ELSE 0)]_vars

\* a sweep deleted PeerA and reported it, and left PeerB, which is live
C7_Witness ==
    /\ mon_pc = "peers"
    /\ PeerA \notin DOMAIN peers
    /\ cb_log[PeerA] = <<"joined", "left">>
    /\ PeerB \in DOMAIN peers
    /\ cb_log[PeerB] = <<"joined">>

Loops == <<b_pc, l_pc, p_pc, mon_pc>>

\* C8: stop() is idempotent and cooperative.  It can be called at any time
\* and again; the event stays set; once it is set every loop that was started
\* terminates, and a loop that has terminated stays terminated.
C8_StopTerminatesLoops ==
    /\ stop_event ~> (\A k \in 1..4 : Loops[k] \in {"off", "done"})
    /\ [][stop_event => stop_event']_vars
    /\ [][\A k \in 1..4 : Loops[k] = "done" => Loops'[k] = "done"]_vars
    /\ [][ENABLED Stop]_vars

\* stop() was called twice on an engine that had found a peer, and the four
\* loops have ended
C8_Witness ==
    /\ stop_calls = "again"
    /\ \A k \in 1..4 : Loops[k] = "done"
    /\ PeerA \in DOMAIN peers

(***************************************************************************)
(* Vision/network_utils.py: the subnet guard.  Addresses are the four      *)
(* octets of the dotted-decimal string.                                    *)
(***************************************************************************)
\* a host of another network
Outsider == <<172, 16, 0, 9>>

\* ipaddress.ip_address(ip) returns an address: four octets of 0..255;
\* for anything else, None included, it raises ValueError
ip_address_ok(ip) == Len(ip) = 4 /\ \A i \in 1..4 : ip[i] \in 0..255

\* ipaddress.ip_address(ip).is_loopback
is_loopback(ip) == ip[1] = 127

get_subnet_prefix(ip) == IF Len(ip) = 4 THEN SubSeq(ip, 1, 3) ELSE << >>

\* `except ValueError: return False` covers both ip_address calls
is_same_subnet(ip_a, ip_b) ==
    IF ~ip_address_ok(ip_a) THEN FALSE
    ELSE IF is_loopback(ip_a) THEN FALSE
    ELSE IF ~ip_address_ok(ip_b) THEN FALSE
    ELSE IF is_loopback(ip_b) THEN FALSE
    ELSE get_subnet_prefix(ip_a) = get_subnet_prefix(ip_b)

\* get_lan_ip(): the LAN address, or 127.0.0.1 when there is no network
LanIps == {OwnAddr, Loopback}

\* a guard that lets every peer through
verify_peer_subnet_any(peer_ip, own) == TRUE

verify_peer_subnet(peer_ip, own) == is_same_subnet(own, peer_ip)

(***************************************************************************)
(* Vision/receiver.py: the persistent server's connections and the         *)
(* handler thread of each.                                                 *)
(***************************************************************************)
ConnIds == {"c1", "c2"}

\* the connection start_receiver accepts
OneShotId == "o1"

\* remote addresses a connection may come from
Senders == {PeerA, Outsider, Loopback}

\* filename bytes a peer may put in its header: "a", and a byte that is
\* not UTF-8
FileNames == {<<97>>, <<255>>}

\* the n bytes of a file of size n
Body(n) == [i \in 1..n |-> i]

Min(a, b) == IF a <= b THEN a ELSE b

\* struct.pack("I", n) and struct.pack("Q", n): w bytes, little-endian
RECURSIVE pack(_, _)
pack(n, w) == IF w = 0 THEN << >> ELSE <<n % 256>> \o pack(n \div 256, w - 1)

\* struct.unpack("I", b)[0] and struct.unpack("Q", b)[0]
RECURSIVE unpack(_)
unpack(b) == IF b = << >> THEN 0 ELSE Head(b) + 256 * unpack(Tail(b))

\* bytes.decode("utf-8", errors="replace") on ASCII bytes, on two-byte
\* sequences and on bytes that begin no UTF-8 sequence: each of the latter
\* becomes U+FFFD
RECURSIVE decode(_)
decode(b) ==
    IF b = << >> THEN << >>
    ELSE IF b[1] < 128 THEN <<b[1]>> \o decode(Tail(b))
    ELSE IF b[1] \in 194..223 /\ Len(b) >= 2 /\ b[2] \in 128..191
    THEN <<(b[1] - 192) * 64 + (b[2] - 128)>> \o decode(SubSeq(b, 3, Len(b)))
    ELSE <<65533>> \o decode(Tail(b))

\* what a peer sends: [4 bytes: filename_len][filename][8 bytes: file_size]
\* [data]
Frame(name, n) == pack(Len(name), 4) \o name \o pack(n, 8) \o Body(n)

Streams == {Frame(x[1], x[2]) : x \in FileNames \X (0..MaxBody)}

IsPrefix(p, s) == Len(p) <= Len(s) /\ SubSeq(s, 1, Len(p)) = p

\* conn.recv(n) after the bytes rx were read: the non-empty chunks it may
\* return, whatever sizes the network delivers the stream in
Chunks(rx, n) ==
    UNION {{SubSeq(f, Len(rx) + 1, Len(rx) + k) :
                k \in 1..Min(n, Len(f) - Len(rx))} :
           f \in {g \in Streams : IsPrefix(rx, g)}}

NoPath == << >>

\* os.path.join(SAVE_FOLDER, f"{timestamp}_{filename}")
save_path(timestamp, filename) == <<SAVE_FOLDER, timestamp, filename>>

\* the file at path now holds content
Put(dir, path, content) ==
    [p \in DOMAIN dir \cup {path} |-> IF p = path THEN content ELSE dir[p]]

\* a connection that has not been made yet
IdleHandler ==
    [pc |-> "idle", sender_ip |-> NoAddr, own_ip |-> NoAddr, open |-> FALSE,
     buf |-> << >>, fn_len |-> 0, filename |-> << >>, filesize |-> 0,
     data |-> << >>, rx |-> << >>, outcome |-> "none", wrote |-> NoPath]

RecvStart ==
    /\ handlers = [c \in ConnIds \cup {OneShotId} |-> IdleHandler]
    /\ files = << >>

\* the handler's variable `received`, kept equal to len(data)
received(c) == Len(handlers[c].data)

\* the argument of the recv_exact call the handler is in
Want(c) ==
    CASE handlers[c].pc = "fn_len" -> 4
      [] handlers[c].pc = "filename" -> handlers[c].fn_len
      [] handlers[c].pc = "filesize" -> 8

InHeader(c) == handlers[c].pc \in {"fn_len", "filename", "filesize"}

\* the handler is blocked in conn.recv
InRecv(c) ==
    \/ InHeader(c) /\ Len(handlers[c].buf) < Want(c)
    \/ handlers[c].pc = "body" /\ received(c) < handlers[c].filesize

\* a server that runs the handler in its own thread: it accepts the next
\* connection only when no transfer is in progress
AcceptSerial(c) ==
    /\ srv_pc = "accept"
    /\ handlers[c].pc = "idle"
    /\ \A d \in ConnIds : handlers[d].pc \in {"idle", "done"}
    /\ \E s \in Senders :
          handlers' = [handlers EXCEPT ![c] =
                          [IdleHandler EXCEPT !.pc = "guard",
                                              !.sender_ip = s,
                                              !.open = TRUE]]
    /\ srv_pc' = (IF _receiver_running THEN "accept" ELSE "stopped")
    /\ srv_socket' = (IF _receiver_running THEN srv_socket ELSE "closed")
    /\ UNCHANGED <<coordVars, discVars, sendVars, fnVars, files,
                   _receiver_running, oneshot>>

\* server.accept() returns a connection and the server starts its handler
\* thread, then tests `while _receiver_running`
Accept(c) ==
    /\ srv_pc = "accept"
    /\ handlers[c].pc = "idle"
    /\ \E s \in Senders :
          handlers' = [handlers EXCEPT ![c] =
                          [IdleHandler EXCEPT !.pc = "guard",
                                              !.sender_ip = s,
                                              !.open = TRUE]]
    /\ srv_pc' = (IF _receiver_running THEN "accept" ELSE "stopped")
    /\ srv_socket' = (IF _receiver_running THEN srv_socket ELSE "closed")
    /\ UNCHANGED <<coordVars, discVars, sendVars, fnVars, files,
                   _receiver_running, oneshot>>

\* own_ip = get_network_status()["ip"] and the subnet guard
HandlerGuard(c) ==
    /\ handlers[c].pc = "guard"
    /\ \E ip \in LanIps :
          LET h == handlers[c]
          IN handlers' = [handlers EXCEPT ![c] =
                IF verify_peer_subnet(h.sender_ip, ip)
                THEN [h EXCEPT !.own_ip = ip, !.pc = "fn_len"]
                ELSE [h EXCEPT !.own_ip = ip, !.open = FALSE,
                               !.outcome = "rejected", !.pc = "done"]]
    /\ UNCHANGED <<coordVars, discVars, servVars, sendVars, fnVars, files>>

\* recv_exact: conn.recv returns a chunk
HandlerRecvExact(c) ==
    /\ InHeader(c)
    /\ Len(handlers[c].buf) < Want(c)
    /\ \E chunk \in Chunks(handlers[c].rx, Want(c) - Len(handlers[c].buf)) :
          handlers' = [handlers EXCEPT ![c].buf = @ \o chunk,
                                       ![c].rx = @ \o chunk]
    /\ UNCHANGED <<coordVars, discVars, servVars, sendVars, fnVars, files>>

\* recv_exact: conn.recv returns b"" and ConnectionError is raised
HandlerDropped(c) ==
    /\ InHeader(c)
    /\ Len(handlers[c].buf) < Want(c)
    /\ handlers' = [handlers EXCEPT ![c].outcome = "dropped",
                                    ![c].pc = "finally"]
    /\ UNCHANGED <<coordVars, discVars, servVars, sendVars, fnVars, files>>

\* conn.recv raises socket.timeout after 30 seconds without a byte
HandlerTimeout(c) ==
    /\ InRecv(c)
    /\ handlers' = [handlers EXCEPT ![c].outcome = "timeout",
                                    ![c].pc = "finally"]
    /\ UNCHANGED <<coordVars, discVars, servVars, sendVars, fnVars, files>>

\* recv_exact returns: the header field is decoded
HandlerHeaderField(c) ==
    /\ InHeader(c)
    /\ Len(handlers[c].buf) >= Want(c)
    /\ LET h == handlers[c]
       IN handlers' = [handlers EXCEPT ![c] =
             CASE h.pc = "fn_len" ->
                    [h EXCEPT !.fn_len = unpack(h.buf), !.buf = << >>,
                              !.pc = "filename"]
               [] h.pc = "filename" ->
                    [h EXCEPT !.filename = decode(h.buf), !.buf = << >>,
                              !.pc = "filesize"]
               [] h.pc = "filesize" ->
                    [h EXCEPT !.filesize = unpack(h.buf), !.buf = << >>,
                              !.pc = "body"]]
    /\ UNCHANGED <<coordVars, discVars, servVars, sendVars, fnVars, files>>

\* the body loop: conn.recv returns a chunk
HandlerBodyRecv(c) ==
    /\ handlers[c].pc = "body"
    /\ received(c) < handlers[c].filesize
    /\ \E chunk \in Chunks(handlers[c].rx,
                           Min(BUFFER_SIZE,
                               handlers[c].filesize - received(c))) :
          handlers' = [handlers EXCEPT ![c].data = @ \o chunk,
                                       ![c].rx = @ \o chunk]
    /\ UNCHANGED <<coordVars, discVars, servVars, sendVars, fnVars, files>>

\* the body loop: conn.recv returns b"", `break`, and the else branch of
\* `if received == filesize`
HandlerBodyBreak(c) ==
    /\ handlers[c].pc = "body"
    /\ received(c) < handlers[c].filesize
    /\ handlers' = [handlers EXCEPT ![c].outcome = "incomplete",
                                    ![c].pc = "finally"]
    /\ UNCHANGED <<coordVars, discVars, servVars, sendVars, fnVars, files>>

\* the body loop ends on its condition, then `if received == filesize`
HandlerBodyDone(c) ==
    /\ handlers[c].pc = "body"
    /\ received(c) >= handlers[c].filesize
    /\ LET h == handlers[c]
       IN handlers' = [handlers EXCEPT ![c] =
             IF received(c) = h.filesize
             THEN [h EXCEPT !.pc = "save"]
             ELSE [h EXCEPT !.outcome = "incomplete", !.pc = "finally"]]
    /\ UNCHANGED <<coordVars, discVars, servVars, sendVars, fnVars, files>>

\* `with open(save_path, "wb") as f: f.write(data)` succeeds
HandlerSave(c) ==
    /\ handlers[c].pc = "save"
    /\ LET save_name == save_path(now, handlers[c].filename)
       IN /\ files' = Put(files, save_name, handlers[c].data)
          /\ handlers' = [handlers EXCEPT ![c].wrote = save_name,
                                          ![c].outcome = "saved",
                                          ![c].pc = "finally"]
    /\ UNCHANGED <<coordVars, discVars, servVars, sendVars, fnVars>>

\* open() raises OSError: there is no file
HandlerOpenFails(c) ==
    /\ handlers[c].pc = "save"
    /\ handlers' = [handlers EXCEPT ![c].outcome = "error",
                                    ![c].pc = "finally"]
    /\ UNCHANGED <<coordVars, discVars, servVars, sendVars, fnVars, files>>

\* open() creates the file and f.write(data) or the closing flush raises
\* OSError after k bytes of the data reached the file
HandlerWriteFails(c) ==
    /\ handlers[c].pc = "save"
    /\ LET save_name == save_path(now, handlers[c].filename)
       IN /\ \E k \in 0..(Len(handlers[c].data) - 1) :
                files' = Put(files, save_name,
                             SubSeq(handlers[c].data, 1, k))
          /\ handlers' = [handlers EXCEPT ![c].wrote = save_name,
                                          ![c].outcome = "error",
                                          ![c].pc = "finally"]
    /\ UNCHANGED <<coordVars, discVars, servVars, sendVars, fnVars>>

\* `finally: conn.close()`
HandlerClose(c) ==
    /\ handlers[c].pc = "finally"
    /\ handlers' = [handlers EXCEPT ![c].open = FALSE, ![c].pc = "done"]
    /\ UNCHANGED <<coordVars, discVars, servVars, sendVars, fnVars, files>>

NextRecv ==
    \E c \in ConnIds :
        \/ Accept(c)
        \/ HandlerGuard(c)
        \/ HandlerRecvExact(c)
        \/ HandlerDropped(c)
        \/ HandlerTimeout(c)
        \/ HandlerHeaderField(c)
        \/ HandlerBodyRecv(c)
        \/ HandlerBodyBreak(c)
        \/ HandlerBodyDone(c)
        \/ HandlerSave(c)
        \/ HandlerOpenFails(c)
        \/ HandlerWriteFails(c)
        \/ HandlerClose(c)

(***************************************************************************)
(* Vision/receiver.py: the persistent server thread and the one-shot       *)
(* receiver start_receiver.                                                *)
(***************************************************************************)
\* before start_background_receiver()
ServStart ==
    /\ _receiver_running = FALSE
    /\ srv_pc = "off"
    /\ srv_socket = "none"
    /\ oneshot = [pc |-> "idle", server |-> "none", result |-> "none"]

\* the persistent server in server.accept()
ServListening ==
    /\ _receiver_running = TRUE
    /\ srv_pc = "accept"
    /\ srv_socket = "listening"
    /\ oneshot = [pc |-> "idle", server |-> "none", result |-> "none"]

\* start_background_receiver(): a no-op while the flag is set
StartBackgroundReceiver ==
    /\ srv_pc \in {"off", "stopped"}
    /\ IF _receiver_running
       THEN UNCHANGED <<_receiver_running, srv_pc>>
       ELSE /\ _receiver_running' = TRUE
            /\ srv_pc' = "start"
    /\ UNCHANGED <<coordVars, discVars, recvVars, sendVars, fnVars,
                   srv_socket, oneshot>>

\* stop_background_receiver()
StopBackgroundReceiver ==
    /\ _receiver_running' = FALSE
    /\ UNCHANGED <<coordVars, discVars, recvVars, sendVars, fnVars,
                   srv_pc, srv_socket, oneshot>>

\* _persistent_server up to the loop: the network check, bind and listen
ServerStart ==
    /\ srv_pc = "start"
    /\ \E ip \in LanIps :
          IF is_loopback(ip)
          THEN /\ srv_pc' = "stopped"
               /\ UNCHANGED srv_socket
          ELSE \/ /\ srv_socket' = "listening"
                  /\ srv_pc' = "accept"
               \/ \* bind raises OSError: the function returns
                  /\ srv_socket' = "open"
                  /\ srv_pc' = "stopped"
    /\ UNCHANGED <<coordVars, discVars, recvVars, sendVars, fnVars,
                   _receiver_running, oneshot>>

\* `while _receiver_running` after an iteration: accept again, or
\* server.close() and the thread ends
ServerLoop == IF _receiver_running THEN "accept" ELSE "stopped"

\* server.accept() raises socket.timeout: `continue`
ServerPoll ==
    /\ srv_pc = "accept"
    /\ srv_pc' = ServerLoop
    /\ srv_socket' = IF _receiver_running THEN srv_socket ELSE "closed"
    /\ UNCHANGED <<coordVars, discVars, recvVars, sendVars, fnVars,
                   _receiver_running, oneshot>>

\* server.accept() raises OSError: `break`, server.close()
ServerAcceptError ==
    /\ srv_pc = "accept"
    /\ srv_pc' = "stopped"
    /\ srv_socket' = "closed"
    /\ UNCHANGED <<coordVars, discVars, recvVars, sendVars, fnVars,
                   _receiver_running, oneshot>>

\* start_receiver is called
OnceCall ==
    /\ oneshot.pc = "idle"
    /\ oneshot' = [oneshot EXCEPT !.pc = "net"]
    /\ UNCHANGED <<coordVars, discVars, recvVars, sendVars, fnVars,
                   _receiver_running, srv_pc, srv_socket>>

\* net = get_network_status(); without a network the function returns,
\* otherwise the socket is created
OnceNet ==
    /\ oneshot.pc = "net"
    /\ \E ip \in LanIps :
          oneshot' = IF is_loopback(ip)
                     THEN [oneshot EXCEPT !.pc = "done",
                                          !.result = "no_network"]
                     ELSE [oneshot EXCEPT !.pc = "bind", !.server = "open"]
    /\ UNCHANGED <<coordVars, discVars, recvVars, sendVars, fnVars,
                   _receiver_running, srv_pc, srv_socket>>

\* server.bind, listen, settimeout(60)
OnceBind ==
    /\ oneshot.pc = "bind"
    /\ oneshot' = [oneshot EXCEPT !.pc = "accept", !.server = "listening"]
    /\ UNCHANGED <<coordVars, discVars, recvVars, sendVars, fnVars,
                   _receiver_running, srv_pc, srv_socket>>

\* server.bind raises OSError: the function returns
OnceBindFails ==
    /\ oneshot.pc = "bind"
    /\ oneshot' = [oneshot EXCEPT !.pc = "done", !.result = "bind_failed"]
    /\ UNCHANGED <<coordVars, discVars, recvVars, sendVars, fnVars,
                   _receiver_running, srv_pc, srv_socket>>

\* conn, addr = server.accept(); _handle_connection(conn, addr[0]) begins
OnceAccept ==
    /\ oneshot.pc = "accept"
    /\ \E s \in Senders :
          handlers' = [handlers EXCEPT ![OneShotId] =
                          [IdleHandler EXCEPT !.pc = "guard",
                                              !.sender_ip = s,
                                              !.open = TRUE]]
    /\ oneshot' = [oneshot EXCEPT !.pc = "handle"]
    /\ UNCHANGED <<coordVars, discVars, sendVars, fnVars, files,
                   _receiver_running, srv_pc, srv_socket>>

\* server.accept() raises socket.timeout after 60 seconds
OnceTimeout ==
    /\ oneshot.pc = "accept"
    /\ oneshot' = [oneshot EXCEPT !.pc = "finally", !.result = "timeout"]
    /\ UNCHANGED <<coordVars, discVars, recvVars, sendVars, fnVars,
                   _receiver_running, srv_pc, srv_socket>>

\* _handle_connection returns
OnceHandled ==
    /\ oneshot.pc = "handle"
    /\ handlers[OneShotId].pc = "done"
    /\ oneshot' = [oneshot EXCEPT !.pc = "finally", !.result = "handled"]
    /\ UNCHANGED <<coordVars, discVars, recvVars, sendVars, fnVars,
                   _receiver_running, srv_pc, srv_socket>>

\* finally: server.close()
OnceFinally ==
    /\ oneshot.pc = "finally"
    /\ oneshot' = [oneshot EXCEPT !.pc = "done", !.server = "closed"]
    /\ UNCHANGED <<coordVars, discVars, recvVars, sendVars, fnVars,
                   _receiver_running, srv_pc, srv_socket>>

\* a step of the handler of connection c
HandlerStep(c) ==
    \/ HandlerGuard(c)
    \/ HandlerRecvExact(c)
    \/ HandlerDropped(c)
    \/ HandlerTimeout(c)
    \/ HandlerHeaderField(c)
    \/ HandlerBodyRecv(c)
    \/ HandlerBodyBreak(c)
    \/ HandlerBodyDone(c)
    \/ HandlerSave(c)
    \/ HandlerOpenFails(c)
    \/ HandlerWriteFails(c)
    \/ HandlerClose(c)

\* the persistent server's thread
ServerStep == ServerStart \/ ServerPoll \/ ServerAcceptError

\* the persistent server from start to stop, without connections
NextServLife ==
    \/ StartBackgroundReceiver
    \/ StopBackgroundReceiver
    \/ ServerStep

\* the listening persistent server, its handlers and the call that stops it
NextServ ==
    \/ StopBackgroundReceiver
    \/ ServerPoll
    \/ ServerAcceptError
    \/ \E c \in ConnIds : Accept(c) \/ HandlerStep(c)

\* one call of start_receiver
NextOnce ==
    \/ OnceCall
    \/ OnceNet
    \/ OnceBind
    \/ OnceBindFails
    \/ OnceAccept
    \/ OnceTimeout
    \/ OnceHandled
    \/ OnceFinally
    \/ HandlerStep(OneShotId)

\* the persistent server's life beside one call of start_receiver; both
\* bind TCP_PORT
NextReceivers ==
    \/ StartBackgroundReceiver
    \/ StopBackgroundReceiver
    \/ ServerStep
    \/ NextOnce

(***************************************************************************)
(* Vision/sender.py: start_sender, called by run_sender in a task thread,  *)
(* and its notify thread.                                                  *)
(***************************************************************************)
\* the task slot whose run_sender thread calls start_sender
SendTask == 1

\* the destination of _notify_broadcast
Broadcast == <<255, 255, 255, 255>>

\* file names start_sender is given, as code points: "a" and "e" with an
\* acute accent
ImageNames == {<<97>>, <<233>>}

\* str.encode("utf-8") for code points below U+0800
RECURSIVE encode(_)
encode(str) ==
    IF str = << >> THEN << >>
    ELSE (IF Head(str) < 128
          THEN <<Head(str)>>
          ELSE <<192 + (Head(str) \div 64), 128 + (Head(str) % 64)>>)
         \o encode(Tail(str))

\* the file at image_path: readable with a name and a size, missing, or
\* not readable
Images ==
    {[state |-> "ok", name |-> x[1], size |-> x[2]] :
        x \in ImageNames \X (0..MaxBody)}
    \cup {[state |-> st, name |-> <<97>>, size |-> 0] :
             st \in {"missing", "denied"}}

\* the peer_ip arguments: None, a host of this /24, a host of another one
PeerArgs == {NoAddr, PeerA, Outsider}

\* struct.pack("I", len(filename)) + filename + struct.pack("Q", file_size)
Header(filename, file_size) ==
    pack(Len(filename), 4) \o filename \o pack(file_size, 8)

IdleSender ==
    [pc |-> "idle", image |-> [state |-> "ok", name |-> <<97>>, size |-> 0],
     peer_ip |-> NoAddr, own_ip |-> NoAddr, filename |-> << >>,
     file_size |-> 0, server |-> "none", conn |-> "none",
     stop_notify |-> FALSE, receiver_ip |-> NoAddr, sent |-> << >>,
     result |-> "none"]

\* before start_sender is called
SendIdle ==
    /\ sender = IdleSender
    /\ n_pc = "off"
    /\ notified = {}
    /\ s_node = OwnAddr
    /\ clients = {}

\* the coordinator's variables but tasks
coordRest == <<operation_active, operation_status, lan_ok, net_status,
               net_check_counter, m_pc, m_action, m_active, m_log>>

\* start_sender returns to run_sender
Returned == [tasks EXCEPT ![SendTask].pc = "ret",
                          ![SendTask].outcome = "returned"]

\* start_sender raises into run_sender
Raised == [tasks EXCEPT ![SendTask].pc = "exc",
                        ![SendTask].outcome = "raised"]

\* net = get_network_status(); `if not net["ok"]: return`
SenderNet ==
    /\ sender.pc = "net"
    /\ IF get_network_status_ok
       THEN /\ sender' = [sender EXCEPT !.own_ip = s_node, !.pc = "read"]
            /\ UNCHANGED tasks
       ELSE /\ sender' = [sender EXCEPT !.own_ip = Loopback,
                                        !.result = "no_network",
                                        !.pc = "done"]
            /\ tasks' = Returned
    /\ UNCHANGED <<coordRest, discVars, recvVars, servVars, fnVars,
                   n_pc, notified, s_node, clients>>

\* open(image_path, "rb") and f.read(): FileNotFoundError is reported and
\* the function returns; any other OSError leaves the function
SenderRead ==
    /\ sender.pc = "read"
    /\ CASE sender.image.state = "ok" ->
              /\ sender' = [sender EXCEPT
                               !.filename = encode(sender.image.name),
                               !.file_size = sender.image.size,
                               !.pc = "bind"]
              /\ UNCHANGED tasks
         [] sender.image.state = "missing" ->
              /\ sender' = [sender EXCEPT !.result = "no_file",
                                          !.pc = "done"]
              /\ tasks' = Returned
         [] sender.image.state = "denied" ->
              /\ sender' = [sender EXCEPT !.result = "raised",
                                          !.pc = "done"]
              /\ tasks' = Raised
    /\ UNCHANGED <<coordRest, discVars, recvVars, servVars, fnVars,
                   n_pc, notified, s_node, clients>>

\* server = socket.socket(...); bind, listen, settimeout(HOSTING_TIMEOUT)
SenderBind ==
    /\ sender.pc = "bind"
    /\ sender' = [sender EXCEPT !.server = "listening", !.pc = "notify"]
    /\ UNCHANGED <<coordVars, discVars, recvVars, servVars, fnVars,
                   n_pc, notified, s_node, clients>>

\* server.bind raises OSError, which leaves the function
SenderBindFails ==
    /\ sender.pc = "bind"
    /\ sender' = [sender EXCEPT !.server = "open", !.result = "raised",
                                !.pc = "done"]
    /\ tasks' = Raised
    /\ UNCHANGED <<coordRest, discVars, recvVars, servVars, fnVars,
                   n_pc, notified, s_node, clients>>

\* `if peer_ip:` the notify thread is started
SenderNotify ==
    /\ sender.pc = "notify"
    /\ n_pc' = "loop"
    /\ sender' = [sender EXCEPT !.pc = "accept"]
    /\ UNCHANGED <<coordVars, discVars, recvVars, servVars, fnVars,
                   notified, s_node, clients>>

\* where the notify thread sends IMAGE_READY
NotifyTarget == IF sender.peer_ip # NoAddr THEN sender.peer_ip ELSE Broadcast

\* _notify_peer_directly / _notify_broadcast: one datagram and a second of
\* sleep
NotifySend ==
    /\ n_pc = "loop"
    /\ ~sender.stop_notify
    /\ notified' = notified \cup {NotifyTarget}
    /\ UNCHANGED <<coordVars, discVars, recvVars, servVars, fnVars,
                   sender, n_pc, s_node, clients>>

\* the notify thread finds stop_event set and closes its socket
NotifyExit ==
    /\ n_pc = "loop"
    /\ sender.stop_notify
    /\ n_pc' = "done"
    /\ UNCHANGED <<coordVars, discVars, recvVars, servVars, fnVars,
                   sender, notified, s_node, clients>>

\* conn, addr = server.accept(); finally: stop_notify.set()
SenderAccept ==
    /\ sender.pc = "accept"
    /\ \E r \in clients :
          sender' = [sender EXCEPT !.conn = "open", !.receiver_ip = r,
                                   !.stop_notify = TRUE, !.pc = "guard"]
    /\ UNCHANGED <<coordVars, discVars, recvVars, servVars, fnVars,
                   n_pc, notified, s_node, clients>>

\* server.accept() raises socket.timeout after HOSTING_TIMEOUT seconds
SenderAcceptTimeout ==
    /\ sender.pc = "accept"
    /\ sender' = [sender EXCEPT !.stop_notify = TRUE, !.server = "closed",
                                !.result = "timeout", !.pc = "done"]
    /\ tasks' = Returned
    /\ UNCHANGED <<coordRest, discVars, recvVars, servVars, fnVars,
                   n_pc, notified, s_node, clients>>

\* `if not verify_peer_subnet(receiver_ip, own_ip)`
SenderGuard ==
    /\ sender.pc = "guard"
    /\ IF verify_peer_subnet(sender.receiver_ip, sender.own_ip)
       THEN /\ sender' = [sender EXCEPT !.pc = "header"]
            /\ UNCHANGED tasks
       ELSE /\ sender' = [sender EXCEPT !.conn = "closed",
                                        !.server = "closed",
                                        !.result = "rejected",
                                        !.pc = "done"]
            /\ tasks' = Returned
    /\ UNCHANGED <<coordRest, discVars, recvVars, servVars, fnVars,
                   n_pc, notified, s_node, clients>>

\* conn.sendall(header)
SenderSendHeader ==
    /\ sender.pc = "header"
    /\ sender' = [sender EXCEPT
                     !.sent = Header(sender.filename, sender.file_size),
                     !.pc = "body"]
    /\ UNCHANGED <<coordVars, discVars, recvVars, servVars, fnVars,
                   n_pc, notified, s_node, clients>>

\* conn.sendall(file_data)
SenderSendBody ==
    /\ sender.pc = "body"
    /\ sender' = [sender EXCEPT !.sent = @ \o Body(sender.file_size),
                                !.result = "sent", !.pc = "finally"]
    /\ UNCHANGED <<coordVars, discVars, recvVars, servVars, fnVars,
                   n_pc, notified, s_node, clients>>

\* what a sendall of `bytes` that raises has put on the connection
Partial(bytes) == {SubSeq(bytes, 1, k) : k \in 0..(Len(bytes) - 1)}

\* a sendall raises (the peer reset the connection): `except Exception`
SenderSendFails ==
    /\ sender.pc \in {"header", "body"}
    /\ \E part \in Partial(IF sender.pc = "header"
                           THEN Header(sender.filename, sender.file_size)
                           ELSE Body(sender.file_size)) :
          sender' = [sender EXCEPT !.sent = @ \o part,
                                   !.result = "send_error",
                                   !.pc = "finally"]
    /\ UNCHANGED <<coordVars, discVars, recvVars, servVars, fnVars,
                   n_pc, notified, s_node, clients>>

\* conn, as accept() returned it, is a blocking socket without a timeout:
\* when the receiver stops reading and the body does not fit the socket
\* buffers, conn.sendall(file_data) does not return
SenderSendBlocks ==
    /\ sender.pc = "body"
    /\ sender.file_size > 0
    /\ \E part \in Partial(Body(sender.file_size)) :
          sender' = [sender EXCEPT !.sent = @ \o part, !.pc = "blocked"]
    /\ UNCHANGED <<coordVars, discVars, recvVars, servVars, fnVars,
                   n_pc, notified, s_node, clients>>

\* finally: conn.close(); server.close(); the function returns
SenderFinally ==
    /\ sender.pc = "finally"
    /\ sender' = [sender EXCEPT !.conn = "closed", !.server = "closed",
                                !.pc = "done"]
    /\ tasks' = Returned
    /\ UNCHANGED <<coordRest, discVars, recvVars, servVars, fnVars,
                   n_pc, notified, s_node, clients>>

SenderStep ==
    \/ SenderNet
    \/ SenderRead
    \/ SenderBind
    \/ SenderBindFails
    \/ SenderNotify
    \/ SenderAccept
    \/ SenderAcceptTimeout
    \/ SenderGuard
    \/ SenderSendHeader
    \/ SenderSendBody
    \/ SenderSendFails
    \/ SenderSendBlocks
    \/ SenderFinally

NotifyStep == NotifySend \/ NotifyExit

\* run_sender after start_sender has ended
WrapperStep ==
    \/ TaskPublishDone(SendTask)
    \/ TaskPublishFailed(SendTask)
    \/ TaskReset(SendTask)

\* a send task
NextSend == SenderStep \/ NotifyStep \/ WrapperStep

\* a send task on one node and the persistent server of its peer; nothing
\* in either program connects to a listening socket
NextXfer ==
    \/ SenderNet
    \/ SenderRead
    \/ SenderBind
    \/ SenderNotify
    \/ SenderAcceptTimeout
    \/ NotifyStep
    \/ TaskPublishDone(SendTask)
    \/ TaskReset(SendTask)
    \/ ServerPoll

(***************************************************************************)
(* Claims about the receive handler                                        *)
(***************************************************************************)
Completes(c) == handlers[c].pc # "done" /\ handlers'[c].pc = "done"

\* C9: a handler writes a file to the receive directory only if it has
\* received exactly filesize body bytes, and the file then holds exactly
\* those bytes; a handler that ends without having saved has its connection
\* closed and has written no file.
C9_FileOnlyIfComplete ==
    [][/\ files' # files =>
              \E c \in ConnIds : handlers'[c].wrote # handlers[c].wrote
       /\ \A c \in ConnIds :
            /\ handlers'[c].wrote # handlers[c].wrote =>
                 /\ received(c) = handlers[c].filesize
                 /\ files'[handlers'[c].wrote] = handlers[c].data
                 /\ Len(files'[handlers'[c].wrote]) = handlers[c].filesize
            /\ Completes(c) =>
                 /\ ~handlers'[c].open
                 /\ handlers'[c].outcome # "saved" =>
                        handlers'[c].wrote = NoPath]_vars

\* the remote address and this node's address are not on one /24, or one
\* of them is a loopback address
FailsGuard(peer_ip, own) ==
    \/ peer_ip[1] = 127
    \/ own[1] = 127
    \/ <<peer_ip[1], peer_ip[2], peer_ip[3]>> # <<own[1], own[2], own[3]>>

\* C10: a connection whose remote address fails the subnet guard against
\* this node's address is rejected: once the guard has been applied the
\* connection is closed, no byte was read from it and its handler has
\* written no file.
C10_RejectedUnread ==
    \A c \in ConnIds :
        (/\ handlers[c].pc \notin {"idle", "guard"}
         /\ FailsGuard(handlers[c].sender_ip, handlers[c].own_ip)) =>
            /\ handlers[c].pc = "done"
            /\ handlers[c].outcome = "rejected"
            /\ ~handlers[c].open
            /\ handlers[c].rx = << >>
            /\ handlers[c].wrote = NoPath

\* the connection from 172.16.0.9 was rejected by the node at 10.0.0.1
\* while a transfer from 10.0.0.5 was saved
C10_Witness ==
    /\ handlers["c1"].sender_ip = Outsider
    /\ handlers["c1"].own_ip = OwnAddr
    /\ handlers["c1"].outcome = "rejected"
    /\ handlers["c2"].sender_ip = PeerA
    /\ handlers["c2"].outcome = "saved"
    /\ DOMAIN files = {handlers["c2"].wrote}

(***************************************************************************)
(* Calls of the pure functions                                             *)
(***************************************************************************)
\* no call is being made
FnIdle == fn_in = << >> /\ fn_out = << >>

\* the strings is_same_subnet is called with: hosts of two networks,
\* loopback and link-local addresses, and strings that are no address
SubnetArgs ==
    {OwnAddr, PeerA, Outsider, Loopback, <<127, 16, 0, 9>>,
     LinkLocal, <<169, 254, 0, 9>>, <<169, 254, 3, 1>>,
     NoAddr, <<10, 0, 0>>, <<10, 0, 0, 256>>}

\* the call returns
CallSameSubnet ==
    /\ fn_out = << >>
    /\ fn_out' = <<is_same_subnet(fn_in[1], fn_in[2])>>
    /\ UNCHANGED <<coordVars, discVars, recvVars, servVars, sendVars,
                   fn_in>>

NextSubnet == CallSameSubnet

\* 169.254.*: link-local autoconfiguration
is_link_local(ip) == ip[1] = 169 /\ ip[2] = 254

\* C12: is_same_subnet(a, b) returns true exactly when both strings are
\* addresses, neither is loopback nor link-local, and their first three
\* octets are equal; for every other pair it returns false
C12_SameSubnetIff ==
    fn_out # << >> =>
        (fn_out[1] <=>
            /\ ip_address_ok(fn_in[1])
            /\ ip_address_ok(fn_in[2])
            /\ ~is_loopback(fn_in[1])
            /\ ~is_loopback(fn_in[2])
            /\ ~is_link_local(fn_in[1])
            /\ ~is_link_local(fn_in[2])
            /\ SubSeq(fn_in[1], 1, 3) = SubSeq(fn_in[2], 1, 3))

\* file names whose header is built: "a", "i.p", "e" with an acute accent,
\* "a" followed by it, and "y" with a diaeresis followed by "b"
HeaderNames == {<<97>>, <<105, 46, 112>>, <<233>>, <<97, 233>>, <<255, 98>>}

\* file sizes whose header is built: the small ones, and sizes that fill
\* one, two, three and four bytes of the size field
HeaderSizes == (0..MaxBody) \cup {255, 256, 65535, 65536, 2147483647}

\* the first bytes of a body of n bytes, which follow the header on the
\* connection
BodyHead(n) == Body(Min(n, MaxBody))

\* the receiver's header reader with the size field read as struct "I"
ReadHeaderShort(wire) ==
    LET fn_len == unpack(SubSeq(wire, 1, 4))
    IN [filename |-> decode(SubSeq(wire, 5, 4 + fn_len)),
        filesize |-> unpack(SubSeq(wire, 5 + fn_len, 8 + fn_len)),
        consumed |-> 8 + fn_len]

\* fn_len, filename and filesize as _handle_connection reads them with
\* recv_exact from the start of the stream, and the bytes it has consumed
ReadHeader(wire) ==
    LET fn_len == unpack(SubSeq(wire, 1, 4))
    IN [filename |-> decode(SubSeq(wire, 5, 4 + fn_len)),
        filesize |-> unpack(SubSeq(wire, 5 + fn_len, 12 + fn_len)),
        consumed |-> 12 + fn_len]

\* the sender builds the header for fn_in and puts it on the connection,
\* the body behind it
CallHeader ==
    /\ fn_out = << >>
    /\ fn_out' = <<Header(encode(fn_in[1]), fn_in[2]) \o BodyHead(fn_in[2])>>
    /\ UNCHANGED <<coordVars, discVars, recvVars, servVars, sendVars,
                   fn_in>>

\* the receiver reads the header from the connection
CallReadHeader ==
    /\ Len(fn_out) = 1
    /\ fn_out' = <<fn_out[1], ReadHeader(fn_out[1])>>
    /\ UNCHANGED <<coordVars, discVars, recvVars, servVars, sendVars,
                   fn_in>>

NextHeader == CallHeader \/ CallReadHeader

\* C13: for every file name and file size, the header the sender builds
\* (uint32 length, file name bytes, uint64 size) is read back by the
\* receiver's header reader as the same file name and the same size, and
\* the reader consumes exactly the header: what is left on the connection
\* is the body from its first byte
C13_HeaderRoundTrip ==
    Len(fn_out) = 2 =>
        /\ fn_out[2].filename = fn_in[1]
        /\ fn_out[2].filesize = fn_in[2]
        /\ fn_out[2].consumed = Len(Header(encode(fn_in[1]), fn_in[2]))
        /\ SubSeq(fn_out[1], fn_out[2].consumed + 1, Len(fn_out[1]))
               = BodyHead(fn_in[2])

\* a header with a two-byte character in the name and a size of more than
\* two bytes, followed by body bytes, has been read
C13_Witness ==
    /\ Len(fn_out) = 2
    /\ fn_in[1] = <<97, 233>>
    /\ fn_in[2] = 65536
    /\ Len(fn_out[1]) > fn_out[2].consumed

(***************************************************************************)
(* Claims about a transfer between two nodes                               *)
(***************************************************************************)
\* the receiving node holds a file of the sender's size under a name that
\* contains the sent file name
ReceiverSaved ==
    \E p \in DOMAIN files :
        /\ p[3] = sender.image.name
        /\ Len(files[p]) = sender.file_size

\* C11: once a send task on a node with a LAN address is hosting toward a
\* live receiver of the same /24 that listens on the transfer port, the
\* receiver eventually holds a file of exactly the sender's byte count under
\* a name containing the sent file name, and both sides report success
C11_FullTransfer ==
    (/\ sender.pc = "accept"
     /\ get_network_status_ok
     /\ is_same_subnet(s_node, sender.peer_ip)
     /\ srv_socket = "listening")
    ~> (/\ ReceiverSaved
        /\ \E c \in ConnIds : handlers[c].outcome = "saved"
        /\ sender.result = "sent"
        /\ operation_status = DoneStatus("SEND"))

(***************************************************************************)
(* Claims about the coordinator's handling of a trigger                    *)
(***************************************************************************)
\* main handles the action of the current frame
HandlesTrigger == m_pc = "handle" /\ m_pc' # "handle"

\* C14: a trigger handled with the gate open while the machine has no
\* usable network makes the coordinator publish the no-network status,
\* launch no task and leave operation_active false
C14_NoNetworkBlocks ==
    [][(HandlesTrigger /\ GateOpen /\ ~get_network_status_ok) =>
          /\ operation_status' = NoWifiStatus
          /\ m_pc' # "spawn"
          /\ ~operation_active']_vars

\* C15: a SEND trigger handled with the gate open and the network available
\* while discovery has no live peer (best_peer() is empty) is refused: the
\* coordinator reports a no-peer status, launches no send task and leaves
\* operation_active false
C15_NoPeerRefuses ==
    [][(/\ HandlesTrigger
        /\ GateOpen
        /\ m_action = "SEND"
        /\ net_status
        /\ best_peer(get_peers(now)) = None) =>
          /\ operation_status' # StartStatus("SEND")
          /\ m_pc' # "spawn"
          /\ ~operation_active']_vars

(***************************************************************************)
(* Claims about a send task                                                *)
(***************************************************************************)
\* run_sender has published its terminal status
SendEnded == tasks[SendTask].pc \in {"fin", "done"}

\* C16: the terminal status of a send reflects its outcome: it is SEND DONE
\* only when the whole file was written to the connection, and a failure
\* status after any failure (no network, file that cannot be opened, no
\* receiver within the timeout, subnet rejection, I/O error while sending)
C16_StatusReflectsOutcome ==
    SendEnded =>
        operation_status = (IF sender.result = "sent"
                            THEN DoneStatus("SEND")
                            ELSE FailedStatus("SEND"))

\* C17: every socket start_sender opened, its listening socket and the
\* accepted connection, is closed when start_sender has ended, whichever
\* way it ended: success, accept timeout, subnet rejection, bind failure or
\* another exception
C17_SocketsClosed ==
    sender.pc = "done" =>
        /\ sender.server \in {"none", "closed"}
        /\ sender.conn \in {"none", "closed"}

(***************************************************************************)
(* Claims about the persistent server                                      *)
(***************************************************************************)
\* C18: no transfer blocks or stops the accept loop of the persistent
\* server: whatever the handlers are doing, also after one has failed, the
\* loop in accept() takes the next connection and starts a handler of its
\* own for it; and a step of a handler, a failing one included, changes
\* neither the server nor the handler of another connection
C18_AcceptLoopIndependent ==
    /\ [](\A c \in ConnIds :
             (srv_pc = "accept" /\ handlers[c].pc = "idle") =>
                 ENABLED Accept(c))
    /\ [][\A c \in ConnIds :
             (handlers[c].pc # "idle" /\ handlers'[c] # handlers[c]) =>
                 /\ srv_pc' = srv_pc
                 /\ srv_socket' = srv_socket
                 /\ _receiver_running' = _receiver_running
                 /\ \A d \in ConnIds \ {c} : handlers'[d] = handlers[d]]_vars

\* the server is in accept() after the transfer of one connection has
\* failed, and the handler of the other connection is receiving a body
C18_Witness ==
    /\ srv_pc = "accept"
    /\ handlers["c1"].outcome = "error"
    /\ handlers["c1"].pc = "done"
    /\ handlers["c2"].pc = "body"

(***************************************************************************)
(* Claims about the files the receiver writes                              *)
(***************************************************************************)
\* C19: any two successful receptions, also of concurrent handlers or in
\* the same clock second with the same file name, are written to distinct
\* paths
C19_DistinctPaths ==
    \A c \in ConnIds : \A d \in ConnIds \ {c} :
        (handlers[c].outcome = "saved" /\ handlers[d].outcome = "saved") =>
            handlers[c].wrote # handlers[d].wrote

\* start_sender has opened a socket or sent a datagram or a byte
SenderTouchedNetwork ==
    \/ sender.server # "none"
    \/ sender.conn # "none"
    \/ n_pc # "off"
    \/ notified # {}
    \/ sender.sent # << >>

\* start_sender has ended with a reported error before it did anything else
SenderRefused ==
    /\ sender.pc = "done"
    /\ sender.result \in {"no_network", "no_file", "raised"}
    /\ ~SenderTouchedNetwork

\* C20: start_sender refuses with a reported error, before opening any
\* socket or sending any datagram or byte, whenever peer_ip is None, or the
\* machine has no usable LAN address, or the file cannot be opened
C20_RefusesBeforeNetwork ==
    (\/ sender.peer_ip = NoAddr
     \/ sender.pc # "net" /\ is_loopback(sender.own_ip)
     \/ sender.image.state # "ok") =>
        (~SenderTouchedNetwork /\ (sender.pc = "done" => SenderRefused))

(***************************************************************************)
(* Claims about the threads that call the callbacks                        *)
(***************************************************************************)
\* a callback is delivered for ip in this step
Delivers(ip) == Len(cb_log'[ip]) > Len(cb_log[ip])

\* C27: on_peer_joined and on_peer_left are invoked only from the monitor's
\* thread, never from the listener or a probe thread
C27_CallbacksFromMonitor ==
    [][\A ip \in PeerIPs :
          Delivers(ip) =>
              /\ mon_pc' # mon_pc
              /\ l_pc' = l_pc
              /\ probes' = probes]_vars

\* C30: the sender applies the subnet guard before it uses a peer as its
\* target: no notification datagram is sent to a peer address that fails
\* the guard, and no header or file byte is written to a connection whose
\* remote address fails the guard
C30_GuardBeforeTarget ==
    /\ \A dest \in notified \ {Broadcast} :
           verify_peer_subnet(dest, sender.own_ip)
    /\ sender.sent # << >> =>
           verify_peer_subnet(sender.receiver_ip, sender.own_ip)

(***************************************************************************)
(* Claims about start()                                                    *)
(***************************************************************************)
\* C24: on a node whose own address is loopback start() is a no-op: none
\* of the four loops is ever spawned, the table stays empty and no callback
\* fires.  On any other node start() returns in one step, having spawned
\* exactly the four loops and no other thread.
C24_StartNoNetwork ==
    /\ [](StartsWith127(own_ip) =>
             /\ \A k \in 1..4 : Loops[k] = "off"
             /\ \A t \in PeerIPs : probes[t] = "idle"
             /\ peers = << >>
             /\ \A ip \in PeerIPs : cb_log[ip] = << >>)
    /\ [][(~started /\ started' /\ ~StartsWith127(own_ip)) =>
             /\ \A k \in 1..4 : Loops[k] = "off" /\ Loops'[k] # "off"
             /\ probes' = probes
             /\ peers' = peers]_vars

\* start() and then stop() were called on a node without a network
C24_Witness ==
    /\ started
    /\ StartsWith127(own_ip)
    /\ stop_calls = "once"

\* C26: no operation the coordinator launched blocks for ever: after an
\* accepted trigger operation_active eventually returns to false, whatever
\* the remote peer does
C26_OperationEnds == operation_active ~> ~operation_active

\* ------------------------------------------------------------------
\* Claims about the datagrams of the discovery channels
\* ------------------------------------------------------------------

\* a datagram made of the hello header and at least two fields
IsHello(data) == Len(data) >= 3 /\ data[1] = HELLO_HEADER

\* the listener's answer to a probe-request of src
ProbeAnswer(src) == <<src, <<HELLO_HEADER, own_hostname, own_ip>>>>

\* the table changes in a pass of the listener only for a hello datagram
OnlyHelloUpserts ==
    \A src \in SourceIPs, data \in Datagrams :
        (ListenerRecv(src, data) /\ peers' # peers) => IsHello(data)

\* C28 as stated: on a probe-request from any sender but this node itself the
\* listener replies by unicast to that sender with this node's own hello,
\* leaves the peer table unchanged and fires no callback; only a well-formed
\* hello datagram causes an upsert.
C28_ProbeAnsweredNonSelf ==
    [][/\ \A src \in SourceIPs :
             (src # own_ip /\ ListenerRecv(src, PROBE_MSG)) =>
                 /\ fn_out' = ProbeAnswer(src)
                 /\ peers' = peers
                 /\ cb_log' = cb_log
       /\ OnlyHelloUpserts]_vars

\* C28, amended: on a probe-request from a sender that is neither this node
\* nor a loopback nor a link-local address the listener replies by unicast to
\* that sender with this node's own hello; a probe-request from any sender
\* leaves the peer table unchanged and fires no callback, and one from a
\* skipped sender gets no reply; only a well-formed hello datagram causes an
\* upsert.
C28_ProbeAnsweredUnlessSkipped ==
    [][/\ \A src \in SourceIPs :
             ListenerRecv(src, PROBE_MSG) =>
                 /\ fn_out' = IF \/ src = own_ip
                                 \/ StartsWith127(src)
                                 \/ StartsWith169254(src)
                                THEN << >> ELSE ProbeAnswer(src)
                 /\ peers' = peers
                 /\ cb_log' = cb_log
       /\ OnlyHelloUpserts]_vars

\* the listener has answered a probe-request of PeerA, and a peer is in the
\* table already
C28_Witness ==
    /\ fn_in = <<PeerA, PROBE_MSG>>
    /\ fn_out = ProbeAnswer(PeerA)
    /\ PeerB \in DOMAIN peers

\* C29: the peer table holds no record for this node's own address, for a
\* loopback address or for a link-local address, whatever the listener and
\* the probe threads receive.
C29_NoSelfLoopbackLinkLocal ==
    \A ip \in DOMAIN peers :
        /\ ip # own_ip
        /\ ~StartsWith127(ip)
        /\ ~StartsWith169254(ip)

\* ------------------------------------------------------------------
\* Claims about the user's callbacks
\* ------------------------------------------------------------------

\* C23: a callback that raises does not stop the engine.  When on_peer_left
\* raises, the monitor is in its sweep again and the record stays deleted;
\* when on_peer_joined raises, the listener receives again and the record
\* stays inserted; every record the sweep deletes is reported, and the sweep
\* ends only when no stale record is left.
C23_RaiseKeepsEngine ==
    [][/\ \A ip \in PeerIPs :
             CallbackLeftEnds(ip, "raises") =>
                 /\ mon_pc' = "locked"
                 /\ ip \notin DOMAIN peers'
       /\ ListenerCallback("raises") =>
             /\ l_pc' = "recv"
             /\ l_join \in DOMAIN peers'
       /\ \A ip \in PeerIPs :
             (ip \in DOMAIN peers /\ ip \notin DOMAIN peers') =>
                 cb_log'[ip] = Append(cb_log[ip], "left")
       /\ (mon_pc \in {"locked", "in_left"} /\ mon_pc' = "peers") =>
             \A ip \in DOMAIN peers' :
                 mon_now - peers'[ip].last_seen < PEER_TIMEOUT]_vars

\* on_peer_left(PeerA) has raised and the sweep has gone on to delete PeerB
\* and to call on_peer_left(PeerB)
C23_Witness ==
    /\ cb_log[PeerA] = <<"left", "raised">>
    /\ mon_pc = "in_left"
    /\ phase[PeerB] = "leaving"
    /\ DOMAIN peers = {}

\* C25: the table's lock is never held while a user's callback runs: the
\* monitor never waits for the lock inside on_peer_left, and while
\* on_peer_left runs the listener's upsert of a hello can go ahead.
C25_NoLockInCallback ==
    /\ mon_pc # "blocked"
    /\ (mon_pc = "in_left" /\ l_pc = "recv") =>
           \A ip \in PeerIPs :
               ENABLED ListenerUpsert(ip, _build_hello("hostA", "10.0.0.5"))

\* ------------------------------------------------------------------
\* Claims about the snapshots
\* ------------------------------------------------------------------

\* C22: get_peers() and best_peer() hand out snapshots: a caller's write to a
\* returned record or to the returned list does not change the table, and a
\* later upsert or eviction does not change what the caller was given.
C22_SnapshotsNotLive ==
    [][/\ SnapCallerChange => TableView' = TableView
       /\ SnapTableChange => SnapshotView' = SnapshotView]_vars

\* the caller holds a record of PeerA that it has written to, and the table
\* has a newer record of PeerA with the engine's values
C22_Witness ==
    /\ fn_out.result # << >>
    /\ SnapshotView[1].ip = PeerA
    /\ SnapshotView[1].hostname = "changed"
    /\ PeerA \in DOMAIN fn_out.table
    /\ TableView[PeerA].hostname = "hostA"
    /\ TableView[PeerA].last_seen > 0

\* ------------------------------------------------------------------
\* Claims about the order of the callbacks
\* ------------------------------------------------------------------

\* C31: the callbacks delivered for an address alternate strictly, starting
\* with on_peer_joined: the first, third, ... delivery is on_peer_joined and
\* the second, fourth, ... is on_peer_left, under every interleaving of the
\* listener, the probe threads and the monitor.
C31_CallbacksAlternate ==
    \A ip \in PeerIPs :
        \A k \in 1..Len(cb_log[ip]) :
            cb_log[ip][k] = (IF k % 2 = 1 THEN "joined" ELSE "left")

\* ------------------------------------------------------------------
\* Claims about the writers of the operation state
\* ------------------------------------------------------------------

\* task i writes operation_status or operation_active in this step
TaskWrites(i) == tasks[i].pc \in {"ret", "exc", "fin"} /\ tasks'[i] # tasks[i]

\* C32: a finished operation never overwrites a newer one.  A task that has
\* reset the flag takes no further step; a task writes the status or the
\* flag only while the flag is set and it is the only task that has not
\* reset it; and every other change of the status or the flag is the
\* coordinator's, made while no task is running.
C32_FinishedNeverOverwrites ==
    [][/\ \A i \in TaskIds :
             tasks[i].pc = "done" /\ tasks'[i] # tasks[i] =>
                 m_pc = "spawn" /\ tasks'[i].pc = "run"
       /\ \A i \in TaskIds :
             TaskWrites(i) => operation_active /\ LiveTasks = {i}
       /\ (/\ \A i \in TaskIds : ~TaskWrites(i)
           /\ \/ operation_status' # operation_status
              \/ operation_active' # operation_active) =>
             m_pc = "handle" /\ LiveTasks = {}]_vars

\* the send task has reset the flag and the coordinator has accepted a
\* RECEIVE trigger after it
C32_Witness ==
    /\ tasks[1].pc = "done"
    /\ tasks[1].kind = "SEND"
    /\ m_pc = "spawn"
    /\ operation_active
    /\ operation_status = StartStatus("RECEIVE")

\* ------------------------------------------------------------------
\* Claims about the persistent receiver's flag
\* ------------------------------------------------------------------

\* no server thread is running: none was started, or it has returned
ServerExited == srv_pc \in {"off", "stopped"}

\* C33: the running flag tracks the server thread: whenever the server
\* thread has exited (or none was started), a call of
\* start_background_receiver() spawns a server thread, and while one runs a
\* call spawns none.
C33_FlagTracksServer ==
    /\ ServerExited => ENABLED (StartBackgroundReceiver /\ srv_pc' = "start")
    /\ ~ServerExited => ~ENABLED (StartBackgroundReceiver /\ srv_pc' = "start")

(***************************************************************************)
(* Vision/gesture.py: GestureDetector, the trigger source.  fn_out holds   *)
(* the detector's fields and the action of its last process_frame; fn_in   *)
(* holds the raw detection of that frame and the history of the frames,    *)
(* kept apart from the detector's own counters.                            *)
(***************************************************************************)
\* self.cooldown, in seconds
cooldown == 3

\* self.stable_frames_required
stable_frames_required == 8

\* what a frame shows: no hand, or the raw state of the hand
RawStates == {"OPEN", "FIST", "UNKNOWN"}

Frames == RawStates \cup {"NOHAND"}

\* GestureDetector.__init__
NewDetector ==
    [action |-> None, previous_state |-> None, last_trigger_time |-> 0,
     candidate_state |-> None, stable_frame_count |-> 0]

\* stabilize_state(raw_state): the detector with its candidate and count
\* updated.  Counts above stable_frames_required are not told apart, as the
\* code only tests `>=`.
stabilize_state(d, raw_state) ==
    IF raw_state # d.candidate_state
        THEN [d EXCEPT !.candidate_state = raw_state,
                       !.stable_frame_count = 1]
        ELSE [d EXCEPT !.stable_frame_count =
                           Min(@ + 1, stable_frames_required)]

\* what stabilize_state returns: the candidate once it is stable, or None
Confirmed(d) ==
    IF d.stable_frame_count >= stable_frames_required
        THEN d.candidate_state ELSE None

\* the action of a transition from previous_state to confirmed_state
Transition(previous_state, confirmed_state) ==
    IF previous_state = "OPEN" /\ confirmed_state = "FIST" THEN "SEND"
    ELSE IF previous_state = "FIST" /\ confirmed_state = "OPEN" THEN "RECEIVE"
    ELSE None

\* a detector that keeps its transition memory after a trigger
AfterTriggerKeeps(d, action, current_time) ==
    [d EXCEPT !.action = action, !.last_trigger_time = current_time]

\* the detector after a trigger: the full reset
AfterTrigger(d, action, current_time) ==
    [d EXCEPT !.action = action,
              !.last_trigger_time = current_time,
              !.previous_state = None,
              !.candidate_state = None,
              !.stable_frame_count = 0]

\* get_action(confirmed_state) at current_time = time.time(): the detector
\* with the action it returns
get_action(d, confirmed_state, current_time) ==
    IF confirmed_state = None THEN [d EXCEPT !.action = None]
    ELSE IF current_time - d.last_trigger_time < cooldown
        THEN [d EXCEPT !.action = None]
    ELSE IF Transition(d.previous_state, confirmed_state) # None
        THEN AfterTrigger(d, Transition(d.previous_state, confirmed_state),
                          current_time)
    ELSE [d EXCEPT !.action = None, !.previous_state = confirmed_state]

\* process_frame(frame) for a frame that shows `raw`
process_frame(d, raw, current_time) ==
    IF raw = "NOHAND"
        THEN [d EXCEPT !.action = None, !.candidate_state = None,
                       !.stable_frame_count = 0]
        ELSE get_action(stabilize_state(d, raw),
                        Confirmed(stabilize_state(d, raw)), current_time)

\* the history before the first frame: no run of detections, no state
\* confirmed, no action emitted
NoHistory ==
    [raw |-> "NOHAND", run |-> 0, fired |-> FALSE, older |-> None,
     newer |-> None, last_action |-> -1]

\* the history after a frame that shows `raw` and yields `action`: the
\* length of the run of identical detections the frame ends (counted up to
\* stable_frames_required), whether the run has yielded an action, the last
\* two different states held for a full run, and the time of the last action
History(h, raw, action, current_time) ==
    LET same == raw # "NOHAND" /\ raw = h.raw
        run == IF raw = "NOHAND" THEN 0
               ELSE IF same THEN Min(h.run + 1, stable_frames_required)
               ELSE 1
        turns == run >= stable_frames_required /\ raw # h.newer
    IN [raw |-> raw,
        run |-> run,
        fired |-> (same /\ h.fired) \/ action # None,
        older |-> IF turns THEN h.newer ELSE h.older,
        newer |-> IF turns THEN raw ELSE h.newer,
        last_action |-> IF action # None THEN current_time ELSE h.last_action]

\* the main loop passes a frame to process_frame
GestureFrame(raw) ==
    /\ fn_out' = process_frame(fn_out, raw, now)
    /\ fn_in' = History(fn_in, raw, fn_out'.action, now)
    /\ UNCHANGED <<coordVars, discVars, recvVars, servVars, sendVars>>

NextGesture ==
    \/ Tick
    \/ \E raw \in Frames : GestureFrame(raw)

(***************************************************************************)
(* Claims about the trigger source                                         *)
(***************************************************************************)
\* the time of the action before the one a frame yields
EarlierAction == fn_in.last_action

\* C34: the detector debounces.  A frame yields SEND only when it completes
\* a run of stable_frames_required identical FIST detections and the state
\* held for a full run before it was OPEN, and RECEIVE likewise for OPEN
\* after FIST; an action comes at least the cooldown after the action before
\* it; a run of identical detections yields at most one action; and the
\* frame that yields an action leaves the detector without transition
\* memory.
C34_Debounced ==
    [][\A raw \in Frames :
          (GestureFrame(raw) /\ fn_out'.action # None) =>
              /\ fn_in'.run >= stable_frames_required
              /\ fn_out'.action = "SEND" =>
                     fn_in'.older = "OPEN" /\ fn_in'.newer = "FIST"
              /\ fn_out'.action = "RECEIVE" =>
                     fn_in'.older = "FIST" /\ fn_in'.newer = "OPEN"
              /\ EarlierAction >= 0 => now - EarlierAction >= cooldown
              /\ ~(raw = fn_in.raw /\ fn_in.fired)
              /\ fn_out'.previous_state = None
              /\ fn_out'.candidate_state = None
              /\ fn_out'.stable_frame_count = 0]_vars

\* a run of FIST detections has yielded SEND and has gone on, past the
\* cooldown and for another full run, so that the detector has confirmed
\* FIST again, and it has yielded no second action
C34_Witness ==
    /\ fn_in.raw = "FIST"
    /\ fn_in.fired
    /\ fn_in.last_action >= 0
    /\ now - fn_in.last_action >= cooldown
    /\ fn_out.previous_state = "FIST"
    /\ fn_out.action = None

(***************************************************************************)
(* Specifications                                                          *)
(***************************************************************************)
\* the coordinator at rest, in the other specifications
CoordIdle == CoordStart /\ lan_ok = TRUE

\* the discovery engine before start(), in the coordinator's specification
DiscIdle == DiscConstructed /\ own_ip = OwnAddr /\ lan_hosts = {}

\* a node with a LAN address right after start()
DiscRunning ==
    /\ now = 0
    /\ own_ip = OwnAddr
    /\ started = TRUE
    /\ stop_event = FALSE
    /\ stop_calls = "never"
    /\ peers = << >>
    /\ last_peer_set = {}
    /\ b_pc = "loop"
    /\ l_pc = "bind"
    /\ l_join = NoAddr
    /\ p_pc = "delay"
    /\ probes = [t \in PeerIPs |-> "idle"]
    /\ mon_pc = "loop"
    /\ mon_now = 0
    /\ a_pc = "idle"
    /\ a_now = 0
    /\ a_result = {}
    /\ cb_log = [ip \in PeerIPs |-> << >>]
    /\ evicted = [ip \in PeerIPs |-> 0]
    /\ refreshed = [ip \in PeerIPs |-> FALSE]
    /\ phase = [ip \in PeerIPs |-> "unknown"]

\* the receiver, the sender and the function call at rest
OthersIdle == RecvStart /\ ServStart /\ SendIdle /\ FnIdle

InitCoord == CoordStart /\ DiscIdle /\ OthersIdle

\* the persistent server is listening and no connection has been made
InitRecv ==
    /\ CoordIdle
    /\ DiscIdle
    /\ RecvStart
    /\ ServListening
    /\ SendIdle
    /\ FnIdle

\* start_background_receiver() has not been called yet
InitServLife == CoordIdle /\ DiscIdle /\ OthersIdle

\* start_receiver has not been called yet
InitOnce == CoordIdle /\ DiscIdle /\ OthersIdle

\* the coordinator has accepted a SEND trigger and started run_sender
SendSpawned ==
    /\ operation_active = TRUE
    /\ operation_status = StartStatus("SEND")
    /\ net_status = TRUE
    /\ net_check_counter = 1
    /\ m_pc = "frame"
    /\ m_action = "SEND"
    /\ m_active = FALSE
    /\ m_log = "accepted"
    /\ tasks = [i \in TaskIds |->
                   [kind |-> "SEND",
                    pc |-> IF i = SendTask THEN "run" ELSE "idle",
                    outcome |-> "none"]]

\* start_sender is called with a file and a peer_ip
InitSend ==
    /\ SendSpawned
    /\ lan_ok \in BOOLEAN
    /\ DiscIdle
    /\ RecvStart
    /\ ServStart
    /\ FnIdle
    /\ \E image \in Images, peer_ip \in PeerArgs :
          sender = [IdleSender EXCEPT !.pc = "net", !.image = image,
                                      !.peer_ip = peer_ip]
    /\ n_pc = "off"
    /\ notified = {}
    /\ s_node = OwnAddr
    /\ clients = {PeerA, Outsider}

\* the node at PeerA sends a readable file to the node at OwnAddr, whose
\* persistent server is listening
InitXfer ==
    /\ SendSpawned
    /\ lan_ok = TRUE
    /\ DiscIdle
    /\ RecvStart
    /\ ServListening
    /\ FnIdle
    /\ \E image \in {x \in Images : x.state = "ok"} :
          sender = [IdleSender EXCEPT !.pc = "net", !.image = image,
                                      !.peer_ip = OwnAddr]
    /\ n_pc = "off"
    /\ notified = {}
    /\ s_node = PeerA
    /\ clients = {}

InitDisc == CoordIdle /\ OthersIdle /\ DiscRunning /\ lan_hosts = {PeerA}

\* the tables a running engine can hold at `now` = t: any of the peers, each
\* last seen at a tick of the clock up to t
Tables(t) ==
    UNION {[known -> [hostname : {"hostA"},
                      last_seen : {k \in 0..t : k % TickStep = 0},
                      via : {"broadcast"}]] : known \in SUBSET PeerIPs}

\* a running engine that has sighted some of its peers, before a call of
\* get_peers() or best_peer()
InitBest ==
    /\ CoordIdle
    /\ OthersIdle
    /\ now \in {t \in 0..MaxTime : t % TickStep = 0}
    /\ peers \in Tables(now)
    /\ own_ip = OwnAddr
    /\ lan_hosts = PeerIPs
    /\ started = TRUE
    /\ stop_event = FALSE
    /\ stop_calls = "never"
    /\ last_peer_set = {}
    /\ b_pc = "wait"
    /\ l_pc = "recv"
    /\ l_join = NoAddr
    /\ p_pc = "sleep"
    /\ probes = [t \in PeerIPs |-> "idle"]
    /\ mon_pc = "wait"
    /\ mon_now = 0
    /\ a_pc = "idle"
    /\ a_now = 0
    /\ a_result = {}
    /\ cb_log = [ip \in PeerIPs |-> << >>]
    /\ evicted = [ip \in PeerIPs |-> 0]
    /\ refreshed = [ip \in PeerIPs |-> FALSE]
    /\ phase = [ip \in PeerIPs |-> "unknown"]

SpecBest == InitBest /\ [][NextBest]_vars

\* a running engine whose listener is bound and waits for a datagram
InitListen ==
    /\ CoordIdle
    /\ OthersIdle
    /\ now = 0
    /\ peers = << >>
    /\ own_ip = OwnAddr
    /\ lan_hosts = PeerIPs
    /\ started = TRUE
    /\ stop_event = FALSE
    /\ stop_calls = "never"
    /\ last_peer_set = {}
    /\ b_pc = "wait"
    /\ l_pc = "recv"
    /\ l_join = NoAddr
    /\ p_pc = "sleep"
    /\ probes = [t \in PeerIPs |-> "idle"]
    /\ mon_pc = "wait"
    /\ mon_now = 0
    /\ a_pc = "idle"
    /\ a_now = 0
    /\ a_result = {}
    /\ cb_log = [ip \in PeerIPs |-> << >>]
    /\ evicted = [ip \in PeerIPs |-> 0]
    /\ refreshed = [ip \in PeerIPs |-> FALSE]
    /\ phase = [ip \in PeerIPs |-> "unknown"]

SpecListen == InitListen /\ [][NextListen]_vars

\* a running engine with any table at any time, its monitor and its listener
SpecCb == InitBest /\ [][NextCb]_vars

\* an engine with an empty table and no list handed out
InitSnap ==
    /\ CoordIdle
    /\ DiscIdle
    /\ RecvStart
    /\ ServStart
    /\ SendIdle
    /\ fn_in = << >>
    /\ fn_out = [table |-> << >>, result |-> << >>]

SpecSnap == InitSnap /\ [][NextSnap]_vars

InitEvict == CoordIdle /\ OthersIdle /\ DiscRunning /\ lan_hosts = PeerIPs

InitLife ==
    /\ CoordIdle
    /\ OthersIdle
    /\ DiscConstructed
    /\ own_ip \in {OwnAddr, Loopback}
    /\ lan_hosts = {PeerA}

SpecCoord == InitCoord /\ [][NextCoord]_vars

SpecRecv == InitRecv /\ [][NextRecv]_vars

SpecServLife == InitServLife /\ [][NextServLife]_vars

\* the persistent server is listening, as in SpecRecv, and may be stopped
SpecServ == InitRecv /\ [][NextServ]_vars

SpecOnce == InitOnce /\ [][NextOnce]_vars

SpecReceivers == InitServLife /\ [][NextReceivers]_vars

\* a new detector before the first frame
InitGesture ==
    /\ CoordIdle
    /\ DiscIdle
    /\ RecvStart
    /\ ServStart
    /\ SendIdle
    /\ fn_in = NoHistory
    /\ fn_out = NewDetector

SpecGesture == InitGesture /\ [][NextGesture]_vars

SpecSend == InitSend /\ [][NextSend]_vars

\* every thread of the send task keeps being scheduled, and a wait that has
\* a timeout ends
SpecSendFair ==
    /\ SpecSend
    /\ WF_vars(SenderStep)
    /\ WF_vars(NotifyStep)
    /\ WF_vars(WrapperStep)

SpecXfer == InitXfer /\ [][NextXfer]_vars

\* the threads of both nodes keep being scheduled and the timeouts expire
SpecXferFair ==
    /\ SpecXfer
    /\ WF_vars(SenderStep)
    /\ WF_vars(NotifyStep)
    /\ WF_vars(WrapperStep)

SpecDisc == InitDisc /\ [][NextDisc]_vars

SpecEvict == InitEvict /\ [][NextEvict]_vars

\* the monitor thread keeps being scheduled and the callbacks return
SpecEvictFair == SpecEvict /\ WF_vars(MonitorStep)

SpecLife == InitLife /\ [][NextLife]_vars

\* every started thread keeps being scheduled and the callbacks return
SpecLifeFair ==
    /\ SpecLife
    /\ WF_vars(BroadcasterStep)
    /\ WF_vars(ListenerStep)
    /\ WF_vars(ScannerStep)
    /\ WF_vars(ProbeStep)
    /\ WF_vars(MonitorStep)

\* a caller is about to evaluate is_same_subnet(ip_a, ip_b)
InitSubnet ==
    /\ CoordIdle
    /\ DiscIdle
    /\ RecvStart
    /\ ServStart
    /\ SendIdle
    /\ fn_in \in SubnetArgs \X SubnetArgs
    /\ fn_out = << >>

SpecSubnet == InitSubnet /\ [][NextSubnet]_vars

\* a sender is about to build the header for a file name and a size
InitHeader ==
    /\ CoordIdle
    /\ DiscIdle
    /\ RecvStart
    /\ ServStart
    /\ SendIdle
    /\ fn_in \in HeaderNames \X HeaderSizes
    /\ fn_out = << >>

SpecHeader == InitHeader /\ [][NextHeader]_vars

====
